---- MODULE Spec2Model ----
(***************************************************************************)
(* Model of the triangulation engine of mie-occ-wasm:                      *)
(*   - TriangulationContext (model_triangulation_impl.cpp): the pass that  *)
(*     flattens the shape tree of a document into a TriangulatedModel;     *)
(*   - ModelContext (model_context.hpp/.cpp): the cached result and the    *)
(*     mutex that guards its computation;                                  *)
(*   - AsyncTask / CadImportAsyncTask (async_task.hpp, cad_import.cpp):    *)
(*     the completion flag and the result slot of a background task.       *)
(*                                                                         *)
(* The geometric kernel is abstracted to a one-dimensional affine group:   *)
(* a gp_Trsf is x |-> s*x + t with s in {1,-1} acting on the X coordinate  *)
(* of a point, which keeps composition, inversion, non-commutativity and   *)
(* the sign of the determinant (mirroring).                                *)
(***************************************************************************)
EXTENDS Integers, Sequences, FiniteSets, TLC

\* Standard_Integer index meaning "no geometry / no material / no parent".
NoIndex == -1

\* std::optional and nullable handles: None is std::nullopt or a null handle,
\* Some(v) holds v.
None == <<>>
Some(v) == <<v>>
HasValue(o) == o # <<>>
ValueOf(o) == o[1]

----------------------------------------------------------------------------
(* gp_Trsf, gp_Pnt, gp_Dir                                                 *)

Trsf(s, t) == [s |-> s, t |-> t]

\* gp_Trsf(): the identity transformation.
IdentityTrsf == Trsf(1, 0)

\* a.Multiplied(b): the composition a * b (b applied first).
Multiplied(a, b) == Trsf(a.s * b.s, a.s * b.t + a.t)

\* a.Inverted()
Inverted(a) == Trsf(a.s, -(a.s * a.t))

\* a.VectorialPart().Determinant()
Determinant(a) == a.s

\* gp_Pnt::Transformed
TransformedPnt(p, T) == <<T.s * p[1] + T.t, p[2], p[3]>>

\* gp_Dir::Transformed: only the vectorial part acts on a direction.
TransformedDir(d, T) == <<T.s * d[1], d[2], d[3]>>

\* gp_Dir::Reversed
Reversed(d) == <<-d[1], -d[2], -d[3]>>

\* gp_Trsf::Value(row, col), row in 1..3, col in 1..4
TrsfValue(T, row, col) ==
    IF row = 1 /\ col = 1 THEN T.s
    ELSE IF row = 1 /\ col = 4 THEN T.t
    ELSE IF row = col THEN 1
    ELSE 0

\* The 16 floats of Mesh::transform, column-major, indexed 0..15.
MatrixArray(T) ==
    [k \in 0..15 |->
        LET row == (k % 4) + 1
            col == (k \div 4) + 1
        IN  IF row = 4 THEN (IF k = 15 THEN 1 ELSE 0)
            ELSE TrsfValue(T, row, col)]

----------------------------------------------------------------------------
(* TriGeometry / LineGeometry buffers                                      *)

\* TriGeometry(): all buffers empty.
EmptyTriGeometry ==
    [positions |-> <<>>, normals |-> <<>>, uvs |-> <<>>,
     indices |-> <<>>, submeshIndices |-> <<>>]

\* LineGeometry(): all buffers empty.
EmptyLineGeometry == [positions |-> <<>>, submeshIndices |-> <<>>]

\* The greatest common divisor of two naturals.
RECURSIVE GCD(_, _)
GCD(a, b) == IF b = 0 THEN a ELSE GCD(b, a % b)

\* The quotient n / d of a floating-point division, kept as the fraction in
\* lowest terms with a denominator that is not negative; the rounding to
\* float is left out. A division by zero gives 1/0 for +inf, -1/0 for -inf
\* and 0/0 for NaN.
Quotient(n, d) ==
    IF d = 0
    THEN [num |-> IF n > 0 THEN 1 ELSE IF n < 0 THEN -1 ELSE 0, den |-> 0]
    ELSE LET g == GCD(IF n < 0 THEN -n ELSE n, IF d < 0 THEN -d ELSE d)
             s == IF d < 0 THEN -1 ELSE 1
         IN  [num |-> (s * n) \div g, den |-> (s * d) \div g]

\* Lines 239-240: (uv - min) / (max - min), divided in floating point.
NormalizedUV(x, lo, hi) == Quotient(x - lo, hi - lo)

----------------------------------------------------------------------------
(* Sequence helpers                                                        *)

\* The concatenation of the tuples f[lo], f[lo+1], ..., f[hi]: what a loop
\* of push_back calls appends to a flat buffer.
RECURSIVE PushAll(_, _, _)
PushAll(f, lo, hi) ==
    IF lo > hi THEN <<>> ELSE f[lo] \o PushAll(f, lo + 1, hi)

\* The two endpoints of segment i of a polyline, flattened to 6 floats.
SegmentFloats(pts, i) == pts[i] \o pts[i + 1]

\* std::unordered_map::emplace: inserts only when the key is absent.
Emplace(map, key, value) ==
    IF key \in DOMAIN map THEN map ELSE map @@ (key :> value)

----------------------------------------------------------------------------
(* The shape tree of a document                                            *)
(*                                                                         *)
(* doc.tshapes[id] = [type, children, faces]: the TopoDS_TShape behind an  *)
(*   identity; children are [tshape, loc] with loc local to the container; *)
(*   faces are [orientation, loc, tri, uv, edges], tri being what the      *)
(*   tessellation primitive attaches to the face (None: nothing);          *)
(*   edges are [tshape, loc, poly, curve], poly being the polygon on the   *)
(*   triangulation of the face (None: absent) and curve the points the     *)
(*   tangential-deflection sampler yields.                                 *)
(* doc.labels: the labels of the shape tool (see the attribute resolver).  *)
(* A shape occurrence is [tshape, loc], loc being its composed location.   *)

Shape(id, loc) == [tshape |-> id, loc |-> loc]

\* shape.ShapeType()
ShapeType(d, shape) == d.tshapes[shape.tshape].type

\* TopoDS_Iterator it(shape): the children, locations composed with the
\* location of the container.
Children(d, shape) ==
    LET ch == d.tshapes[shape.tshape].children
    IN  [i \in 1..Len(ch) |-> Shape(ch[i].tshape, Multiplied(shape.loc, ch[i].loc))]

\* TopExp_Explorer faceExplorer(shape, TopAbs_FACE)
ExploreFaces(d, shape) ==
    LET fs == d.tshapes[shape.tshape].faces
    IN  [i \in 1..Len(fs) |-> [fs[i] EXCEPT !.loc = Multiplied(shape.loc, @)]]

\* TopExp_Explorer edgeExplorer(face, TopAbs_EDGE)
ExploreEdges(face) ==
    [i \in 1..Len(face.edges) |->
        [face.edges[i] EXCEPT !.loc = Multiplied(face.loc, @)]]

\* BRep_Tool::Triangulation(face, location): the triangulation the mesher
\* attached to the face, null when the owning shape carries none.
Triangulation(c, owner, face) ==
    IF owner \in c.triangulated THEN face.tri ELSE None

----------------------------------------------------------------------------
(* TriangulationContext::triangulateShape                                  *)

\* An offset counted in floats instead of vertices.
IndexOffsetInFloats(triData) == Len(triData.positions)

\* Line 203: the vertices already in the buffer of the shape.
IndexOffset(triData) == Len(triData.positions) \div 3

\* A submesh entry that counts the indices of the face.
SubmeshEntryOfIndices(polyTri) == 3 * Len(polyTri.triangles)

\* Line 206: the submesh entry of a face is polyTri->NbNodes().
SubmeshEntry(polyTri) == Len(polyTri.nodes)

\* A correction that looks at the orientation of the face only.
FixNormalsByOrientation(reversed, relativeTransform) == reversed

\* Line 218: (faceOrientation == TopAbs_REVERSED) ^ (determinant < 0)
FixNormals(reversed, relativeTransform) ==
    reversed # (Determinant(relativeTransform) < 0)

\* Lines 199-265: the vertex, normal, uv and index data of one face that
\* carries a triangulation, appended to triData.
FaceTriData(triData, face, polyTri, parentTransform) ==
    LET childTransform    == face.loc
        relativeTransform == Multiplied(Inverted(parentTransform), childTransform)
        indexOffset       == IndexOffset(triData)
        NbNodes           == Len(polyTri.nodes)
        NbTriangles       == Len(polyTri.triangles)
        reversed          == face.orientation = "REVERSED"
        fixNormals        == FixNormals(reversed, relativeTransform)
        pos == [i \in 1..NbNodes |->
                   TransformedPnt(polyTri.nodes[i], relativeTransform)]
        nrm == [i \in 1..NbNodes |->
                   IF fixNormals
                   THEN TransformedDir(Reversed(polyTri.normals[i]), relativeTransform)
                   ELSE TransformedDir(polyTri.normals[i], relativeTransform)]
        uvs == [i \in 1..NbNodes |->
                   << NormalizedUV(polyTri.uvNodes[i][1], face.uv.umin, face.uv.umax),
                      NormalizedUV(polyTri.uvNodes[i][2], face.uv.vmin, face.uv.vmax) >>]
        idx == [i \in 1..NbTriangles |->
                   LET n1 == polyTri.triangles[i][1]
                       n2 == polyTri.triangles[i][2]
                       n3 == polyTri.triangles[i][3]
                   IN  IF reversed
                       THEN << n1 - 1 + indexOffset, n2 - 1 + indexOffset, n3 - 1 + indexOffset >>
                       ELSE << n1 - 1 + indexOffset, n3 - 1 + indexOffset, n2 - 1 + indexOffset >>]
    IN  [positions      |-> triData.positions \o PushAll(pos, 1, NbNodes),
         normals        |-> triData.normals \o PushAll(nrm, 1, NbNodes),
         uvs            |-> triData.uvs \o PushAll(uvs, 1, NbNodes),
         indices        |-> triData.indices \o PushAll(idx, 1, NbTriangles),
         submeshIndices |-> Append(triData.submeshIndices, SubmeshEntry(polyTri))]

\* A polyline stored as a connected strip of its n points, whatever n.
PolylineDataConnected(lineData, pts) ==
    [positions      |-> lineData.positions \o PushAll(pts, 1, Len(pts)),
     submeshIndices |-> Append(lineData.submeshIndices, Len(pts))]

\* Lines 288-305 and 316-332: an edge polyline of n points appended to
\* lineData as n-1 unconnected segments; nothing when n < 2.
PolylineData(lineData, pts) ==
    LET n == Len(pts)
    IN  IF n < 2 THEN lineData
        ELSE [positions      |-> lineData.positions \o
                                 PushAll([i \in 1..(n - 1) |-> SegmentFloats(pts, i)], 1, n - 1),
              submeshIndices |-> Append(lineData.submeshIndices, (n - 1) * 2)]

\* Lines 271-334: one iteration of the edge loop of a face. st carries the
\* line buffer of the shape and processedEdgeSet.
EdgeLineData(st, polyTri, edge, parentTransform) ==
    IF edge.tshape \in st.processedEdgeSet THEN st
    ELSE
        LET childTransform    == edge.loc
            relativeTransform == Multiplied(Inverted(parentTransform), childTransform)
            polypolyTri       == IF HasValue(polyTri) THEN edge.poly ELSE None
            pts == IF HasValue(polypolyTri)
                   THEN [i \in 1..Len(ValueOf(polypolyTri)) |->
                            TransformedPnt(ValueOf(polyTri).nodes[ValueOf(polypolyTri)[i]],
                                           relativeTransform)]
                   ELSE [i \in 1..Len(edge.curve) |->
                            TransformedPnt(edge.curve[i], relativeTransform)]
        IN  [st EXCEPT !.lineData = PolylineData(@, pts),
                       !.processedEdgeSet = @ \cup {edge.tshape}]

RECURSIVE EdgeLoop(_, _, _, _, _)
EdgeLoop(st, polyTri, edges, i, parentTransform) ==
    IF i > Len(edges) THEN st
    ELSE EdgeLoop(EdgeLineData(st, polyTri, edges[i], parentTransform),
                  polyTri, edges, i + 1, parentTransform)

\* Lines 197-266: the buffers of the face are appended when the face
\* carries a triangulation.
FaceTri(st, polyTri, face, parentTransform) ==
    IF HasValue(polyTri)
    THEN [st EXCEPT !.triData = FaceTriData(@, face, ValueOf(polyTri), parentTransform)]
    ELSE st

\* Lines 193-337: one iteration of the face loop. Every edge reads the
\* triangulation of the face again (line 283); with no other thread in the
\* kernel it is the one line 197 has read.
FaceData(c, owner, st, face, parentTransform) ==
    LET polyTri == Triangulation(c, owner, face)
    IN  EdgeLoop(FaceTri(st, polyTri, face, parentTransform), polyTri,
                 ExploreEdges(face), 1, parentTransform)

RECURSIVE FaceLoop(_, _, _, _, _, _)
FaceLoop(c, owner, st, faces, i, parentTransform) ==
    IF i > Len(faces) THEN st
    ELSE FaceLoop(c, owner, FaceData(c, owner, st, faces[i], parentTransform),
                  faces, i + 1, parentTransform)

\* A key that tells the occurrences of one identity apart.
ShapeKeyLocated(shape) == shape

\* shape.TShape().get(): the key of the identity maps.
ShapeKey(shape) == shape.tshape

\* An id one past the size of the map.
NextIdOffByOne(map) == Cardinality(DOMAIN map) + 1

\* Lines 341, 350 and 413: the id of a new entry is the size of its map.
NextId(map) == Cardinality(DOMAIN map)

\* A guard that never finds the shape.
AlreadyProcessedNever(c, shape) == FALSE

\* Line 164: the dedup guard of triangulateShape.
AlreadyProcessed(c, shape) == ShapeKey(shape) \in DOMAIN c.processedShapeMap

\* Line 181: BRepMesh_IncrementalMesh mesh(shape, ...) attaches the
\* triangulations to the faces of the shape.
IncrementalMesh(c, key) ==
    [c EXCEPT !.meshLog = Append(@, key), !.triangulated = @ \cup {key}]

\* Lines 189-190: the empty buffers the face loop starts with.
NewShapeData(c) ==
    [triData |-> EmptyTriGeometry, lineData |-> EmptyLineGeometry,
     processedEdgeSet |-> c.processedEdgeSet]

\* A test that looks at the positions only.
HasTriDataByPositions(triData) == triData.positions # <<>>

\* Line 339: !triData.positions.empty() && !triData.indices.empty()
HasTriData(triData) == triData.positions # <<>> /\ triData.indices # <<>>

\* Line 348: !lineData.positions.empty()
HasLineData(lineData) == lineData.positions # <<>>

\* The sizes of the buffers the face loop left for the shape.
BufferSizes(key, st) ==
    [key |-> key, triPositions |-> Len(st.triData.positions),
     triIndices |-> Len(st.triData.indices), linePositions |-> Len(st.lineData.positions)]

\* Lines 339-362: the buffers st of the shape are stored under its identity
\* when they are not empty, and the indices are recorded.
StoreGeometry(c, key, st) ==
    LET hasTri  == HasTriData(st.triData)
        hasLine == HasLineData(st.lineData)
        triMap  == IF hasTri
                   THEN Emplace(c.triGeometryMap, key,
                                [id |-> NextId(c.triGeometryMap),
                                 geometry |-> st.triData])
                   ELSE c.triGeometryMap
        lineMap == IF hasLine
                   THEN Emplace(c.lineGeometryMap, key,
                                [id |-> NextId(c.lineGeometryMap),
                                 geometry |-> st.lineData])
                   ELSE c.lineGeometryMap
        processedInfo ==
            [triGeometryIndex  |-> IF hasTri THEN triMap[key].id ELSE NoIndex,
             lineGeometryIndex |-> IF hasLine THEN lineMap[key].id ELSE NoIndex]
    IN  [tc |-> [c EXCEPT !.triGeometryMap = triMap,
                          !.lineGeometryMap = lineMap,
                          !.processedEdgeSet = st.processedEdgeSet,
                          !.shapeLog = Append(@, BufferSizes(key, st)),
                          !.processedShapeMap = (key :> processedInfo) @@ @],
         info |-> processedInfo]

\* Lines 162-363. Returns the context after the call and the
\* ProcessedShapeInfo the call returns.
triangulateShape(c, d, shape) ==
    IF AlreadyProcessed(c, shape)
    THEN [tc |-> c, info |-> c.processedShapeMap[ShapeKey(shape)]]
    ELSE StoreGeometry(IncrementalMesh(c, shape.tshape), ShapeKey(shape),
                       FaceLoop(IncrementalMesh(c, shape.tshape), shape.tshape,
                                NewShapeData(c), ExploreFaces(d, shape), 1, shape.loc))

----------------------------------------------------------------------------
(* Attribute resolver                                                      *)
(*                                                                         *)
(* doc.labels[l] = [top, shape, free, name, surf, curv, gen, ref]:         *)
(*   top    the label is a child of shapeTool->Label();                    *)
(*   shape  Some(occurrence) when GetShape succeeds on the label;          *)
(*   free   XCAFDoc_ShapeTool::IsFree;                                     *)
(*   name   Some(string) when the label has a TDataStd_Name;               *)
(*   surf, curv, gen   Some(rgb) when the colour of that kind is set;      *)
(*   ref    the label GetReferredShape yields, 0 when not a reference.     *)

NoLabel == 0

\* XCAFDoc_ShapeTool::IsReference
IsReference(d, l) == d.labels[l].ref # NoLabel

\* Lines 128-136. The while loop ends only at a non-reference label: on a
\* chain of n labels it ends within n steps or never; None: never.
RECURSIVE ResolveFrom(_, _, _)
ResolveFrom(d, resolvedLabel, fuel) ==
    IF ~IsReference(d, resolvedLabel) THEN Some(resolvedLabel)
    ELSE IF fuel = 0 THEN None
    ELSE ResolveFrom(d, d.labels[resolvedLabel].ref, fuel - 1)

resolveReferredShapeLabel(d, label) == ResolveFrom(d, label, Len(d.labels))

\* Lines 138-146: surface, then curve, then generic colour.
getLabelColor(d, label) ==
    IF HasValue(d.labels[label].surf) THEN d.labels[label].surf
    ELSE IF HasValue(d.labels[label].curv) THEN d.labels[label].curv
    ELSE d.labels[label].gen

\* Lines 148-159
getLabelName(d, label) ==
    IF HasValue(d.labels[label].name) THEN ValueOf(d.labels[label].name) ELSE ""

SetMin(S) == CHOOSE x \in S : \A y \in S : x <= y

\* shapeTool->Search(shape, shapeLabel): a located shape matches the
\* instance or component label that holds it with its location; otherwise
\* the top-level label of its identity with the location stripped.
Search(d, shape) ==
    LET L == 1..Len(d.labels)
        inst  == {l \in L : d.labels[l].shape = Some(shape)}
        proto == {l \in L : d.labels[l].shape = Some(Shape(shape.tshape, IdentityTrsf))}
    IN  IF shape.loc # IdentityTrsf /\ inst # {} THEN Some(SetMin(inst))
        ELSE IF proto # {} THEN Some(SetMin(proto))
        ELSE None

----------------------------------------------------------------------------
(* TriangulationContext::resolveShapeTree                                  *)

\* A switch that takes solids for compounds and compounds for solids.
MeshShapeTypeSwapped(topAbs) ==
    CASE topAbs = "COMPOUND"  -> "Solid"
      [] topAbs = "COMPSOLID" -> "Compsolid"
      [] topAbs = "SOLID"     -> "Compound"
      [] topAbs = "SHELL"     -> "Shell"
      [] topAbs = "EDGE"      -> "Edge"
      [] OTHER                -> "Unknown"

\* Lines 393-401
MeshShapeTypeOf(topAbs) ==
    CASE topAbs = "COMPOUND"  -> "Compound"
      [] topAbs = "COMPSOLID" -> "Compsolid"
      [] topAbs = "SOLID"     -> "Solid"
      [] topAbs = "SHELL"     -> "Shell"
      [] topAbs = "EDGE"      -> "Edge"
      [] OTHER                -> "Unknown"

StackFrame(shape, parentMeshIndex, parentWorldTransform) ==
    [shape |-> shape, parentMeshIndex |-> parentMeshIndex,
     parentWorldTransform |-> parentWorldTransform]

\* A material key that is the colour instead of the label.
MaterialKeyByColour(d, resolvedLabel) == getLabelColor(d, resolvedLabel)

\* Line 420: the key of materialMap is the resolved label.
MaterialKey(d, resolvedLabel) == resolvedLabel

\* Lines 407-422: name and material read through the label found.
LabelAttributes(c, d, shapeLabel, resolvedLabel) ==
    LET color  == getLabelColor(d, resolvedLabel)
        key    == MaterialKey(d, resolvedLabel)
        matMap == IF HasValue(color)
                  THEN Emplace(c.materialMap, key,
                               [id |-> NextId(c.materialMap),
                                material |-> ValueOf(color)])
                  ELSE c.materialMap
    IN  [materialMap   |-> matMap,
         shapeName     |-> getLabelName(d, shapeLabel),
         materialIndex |-> IF HasValue(color) THEN matMap[key].id ELSE NoIndex]

\* Lines 403-423: name and material of the popped shape, shapeLabel being
\* what Search found. Returns the material map after the lookup, the name
\* and the material index.
ResolveAttributes(c, d, shapeLabel) ==
    IF ~HasValue(shapeLabel)
    THEN [materialMap |-> c.materialMap, shapeName |-> "", materialIndex |-> NoIndex]
    ELSE LabelAttributes(c, d, ValueOf(shapeLabel),
                         ValueOf(resolveReferredShapeLabel(d, ValueOf(shapeLabel))))

\* Lines 406-409: the loop of resolveReferredShapeLabel ends for the label.
ResolutionEndsAt(d, shapeLabel) ==
    HasValue(shapeLabel) => HasValue(resolveReferredShapeLabel(d, ValueOf(shapeLabel)))

ResolutionEnds(d, shape) == ResolutionEndsAt(d, Search(d, shape))

\* Lines 425-438: the geometry indices of the shape: a Solid or Shell is
\* triangulated, anything else has none.
ResolvePrimitives(c, d, shape) ==
    IF ShapeType(d, shape) \in {"SOLID", "SHELL"}
    THEN triangulateShape(c, d, shape)
    ELSE [tc |-> c, info |-> [triGeometryIndex |-> NoIndex, lineGeometryIndex |-> NoIndex]]

\* The frames of the children pushed last child first.
PushChildrenLastFirst(d, popped, shape, meshIndex) ==
    LET children == Children(d, shape)
    IN  IF ShapeType(d, shape) \in {"COMPOUND", "COMPSOLID"}
        THEN popped \o [i \in 1..Len(children) |->
                           StackFrame(children[Len(children) + 1 - i], meshIndex, shape.loc)]
        ELSE popped

\* Lines 428-433: the frames of the children of a compound, pushed in the
\* order of the iterator.
PushChildren(d, popped, shape, meshIndex) ==
    LET children == Children(d, shape)
    IN  IF ShapeType(d, shape) \in {"COMPOUND", "COMPSOLID"}
        THEN popped \o [i \in 1..Len(children) |->
                           StackFrame(children[i], meshIndex, shape.loc)]
        ELSE popped

\* A relative transform that composes with the parent's world transform
\* itself.
RelativeTransformNotInverted(parentWorldTransform, shapeTransform) ==
    Multiplied(parentWorldTransform, shapeTransform)

\* Line 381: parentWorldTransform.Inverted().Multiplied(shapeTransform)
RelativeTransform(parentWorldTransform, shapeTransform) ==
    Multiplied(Inverted(parentWorldTransform), shapeTransform)

\* Lines 378-391 and 440-448: the Mesh of the frame is appended.
PushMesh(d, frame, attr, tri) ==
    LET shapeTransform    == frame.shape.loc
        relativeTransform == RelativeTransform(frame.parentWorldTransform, shapeTransform)
    IN  [tri.tc EXCEPT !.frameLog = Append(@, frame), !.meshes =
            Append(@, [name              |-> attr.shapeName,
                       transform         |-> MatrixArray(relativeTransform),
                       shapeType         |-> MeshShapeTypeOf(ShapeType(d, frame.shape)),
                       triGeometryIndex  |-> tri.info.triGeometryIndex,
                       lineGeometryIndex |-> tri.info.lineGeometryIndex,
                       materialIndex     |-> attr.materialIndex,
                       parentMeshIndex   |-> frame.parentMeshIndex])]

\* The frame popped at line 375-376, its attributes resolved.
ProcessFrame(c, d, frame, attr) ==
    PushMesh(d, frame, attr,
             ResolvePrimitives([c EXCEPT !.materialMap = attr.materialMap], d, frame.shape))

\* An index reserved as if the Mesh were already appended.
MeshIndexAfterPush(c) == Len(c.meshes) + 1

\* Line 378: meshIndex is the size of meshes when the frame is popped.
MeshIndex(c) == Len(c.meshes)

\* The frame with the meshIndex reserved for it entered in indexLog.
Reserved(c, meshIndex) == [c EXCEPT !.indexLog = Append(@, meshIndex)]

\* Lines 374-449: one iteration of the while loop: pops a frame, reserves
\* meshIndex, appends its Mesh, pushes the children of a compound.
StepWithIndex(c, d, stack, meshIndex) ==
    [tc    |-> ProcessFrame(Reserved(c, meshIndex), d, stack[Len(stack)],
                            ResolveAttributes(c, d, Search(d, stack[Len(stack)].shape))),
     stack |-> PushChildren(d, SubSeq(stack, 1, Len(stack) - 1),
                            stack[Len(stack)].shape, meshIndex)]

resolveShapeTreeStep(c, d, stack) == StepWithIndex(c, d, stack, MeshIndex(c))

----------------------------------------------------------------------------
(* TriangulationContext::compute                                           *)

\* TriangulationContext(shapeTool, colorTool): empty maps, no mesh.
\* triangulated is the set of identities whose faces carry the
\* triangulation the mesher attached. Two histories are kept with it:
\* meshLog, the identity meshed by each construction of
\* BRepMesh_IncrementalMesh, frameLog, the frame each Mesh was made from,
\* indexLog, the meshIndex reserved when that frame was popped, and
\* shapeLog, the buffer sizes each run of the face loop ended with.
NewContext ==
    [triGeometryMap |-> <<>>, lineGeometryMap |-> <<>>, materialMap |-> <<>>,
     meshes |-> <<>>, processedShapeMap |-> <<>>, processedEdgeSet |-> {},
     triangulated |-> {}, meshLog |-> <<>>, frameLog |-> <<>>, indexLog |-> <<>>,
     shapeLog |-> <<>>]

\* A root test that leaves out IsFree.
IsTopLevelShape(d, l) ==
    d.labels[l].top /\ HasValue(d.labels[l].shape)

\* Lines 91 and 114: the label holds a free shape (a root).
IsFreeShape(d, l) ==
    d.labels[l].top /\ HasValue(d.labels[l].shape) /\ d.labels[l].free

\* A drain that fills the vector from its end.
DrainReversed(map, empty) ==
    [i \in 1..Cardinality(DOMAIN map) |->
        (map[CHOOSE k \in DOMAIN map : map[k].id = Cardinality(DOMAIN map) - i]).geometry]

\* Lines 100-107: a vector of map.size() default-constructed entries, entry
\* info.id overwritten by each info of the map.
Drain(map, empty) ==
    [i \in 1..Cardinality(DOMAIN map) |->
        IF \E k \in DOMAIN map : map[k].id = i - 1
        THEN (map[CHOOSE k \in DOMAIN map : map[k].id = i - 1]).geometry
        ELSE empty]

DrainMaterials(map) ==
    [i \in 1..Cardinality(DOMAIN map) |->
        IF \E k \in DOMAIN map : map[k].id = i - 1
        THEN Some((map[CHOOSE k \in DOMAIN map : map[k].id = i - 1]).material)
        ELSE None]

\* The identities in the subtree of a shape: what BRepTools::Clean reaches.
RECURSIVE Subtree(_, _)
Subtree(d, id) ==
    {id} \cup UNION {Subtree(d, d.tshapes[id].children[i].tshape) :
                        i \in 1..Len(d.tshapes[id].children)}

\* Lines 111-117: BRepTools::Clean on every free shape.
CleanedBy(d) ==
    UNION {Subtree(d, ValueOf(d.labels[l].shape).tshape) :
              l \in {k \in 1..Len(d.labels) : IsFreeShape(d, k)}}

\* The state of one call of compute(): the context, the label iterator of
\* the first loop, the stack of resolveShapeTree, the three local vectors
\* and the value returned.
NewPass ==
    [pc |-> "labels", labelIt |-> 1, stack |-> <<>>, tc |-> NewContext,
     tris |-> <<>>, lines |-> <<>>, materials |-> <<>>, result |-> None]

\* Lines 88-95: the iterator is on a label: a free shape starts
\* resolveShapeTree (line 372 pushes the root frame), any other is skipped.
VisitLabel(d, p) ==
    IF IsFreeShape(d, p.labelIt)
    THEN [p EXCEPT !.pc = "flatten",
                   !.stack = << StackFrame(ValueOf(d.labels[p.labelIt].shape),
                                           NoIndex, IdentityTrsf) >>]
    ELSE [p EXCEPT !.labelIt = @ + 1]

\* A return to the label loop that forgets the shapes the root has met.
AfterIterationPerRoot(p, r) ==
    IF r.stack = <<>>
    THEN [p EXCEPT !.tc = [r.tc EXCEPT !.processedShapeMap = <<>>], !.stack = r.stack,
                   !.pc = "labels", !.labelIt = @ + 1]
    ELSE [p EXCEPT !.tc = r.tc, !.stack = r.stack]

\* Lines 374-449, and the return to the label loop when the stack is empty.
AfterIteration(p, r) ==
    IF r.stack = <<>>
    THEN [p EXCEPT !.tc = r.tc, !.stack = r.stack, !.pc = "labels", !.labelIt = @ + 1]
    ELSE [p EXCEPT !.tc = r.tc, !.stack = r.stack]

FlattenStep(d, p) == AfterIteration(p, resolveShapeTreeStep(p.tc, d, p.stack))

\* Lines 97-108
Assemble(p) ==
    [p EXCEPT !.pc = "clean",
              !.tris = Drain(p.tc.triGeometryMap, EmptyTriGeometry),
              !.lines = Drain(p.tc.lineGeometryMap, EmptyLineGeometry),
              !.materials = DrainMaterials(p.tc.materialMap),
              !.tc = [@ EXCEPT !.processedShapeMap = <<>>, !.processedEdgeSet = {},
                               !.triGeometryMap = <<>>, !.lineGeometryMap = <<>>,
                               !.materialMap = <<>>]]

\* Lines 111-117
CleanStep(d, p) ==
    [p EXCEPT !.pc = "return", !.tc = [@ EXCEPT !.triangulated = @ \ CleanedBy(d)]]

\* Lines 119-124: the vectors are moved into the TriangulatedModel.
ReturnStep(p) ==
    [p EXCEPT !.pc = "done",
              !.result = Some([tris |-> p.tris, lines |-> p.lines,
                               materials |-> p.materials, meshes |-> p.tc.meshes]),
              !.tris = <<>>, !.lines = <<>>, !.materials = <<>>,
              !.tc = [@ EXCEPT !.meshes = <<>>]]

\* The step compute() takes from p; enabled while the call has not returned
\* and, in resolveShapeTree, while reference resolution ends.
CanStep(d, p) ==
    /\ p.pc # "done"
    /\ p.pc = "flatten" => ResolutionEnds(d, p.stack[Len(p.stack)].shape)

PassStep(d, p) ==
    CASE p.pc = "labels" /\ p.labelIt <= Len(d.labels) -> VisitLabel(d, p)
      [] p.pc = "labels" /\ p.labelIt > Len(d.labels)  -> Assemble(p)
      [] p.pc = "flatten" -> FlattenStep(d, p)
      [] p.pc = "clean"   -> CleanStep(d, p)
      [] p.pc = "return"  -> ReturnStep(p)

\* Lines 86-125 and 453-459: the whole call. None: the call never returns.
RECURSIVE RunPass(_, _)
RunPass(d, p) ==
    IF p.pc = "done" THEN Some(p)
    ELSE IF ~CanStep(d, p) THEN None
    ELSE RunPass(d, PassStep(d, p))

\* --- compute() next to another compute() on the same document ---

\* The shape of the frame on top of the stack.
TopShape(p) == p.stack[Len(p.stack)].shape

\* The next iteration of resolveShapeTree constructs
\* BRepMesh_IncrementalMesh (lines 164 and 181).
NeedsMesh(d, p) ==
    /\ p.pc = "flatten"
    /\ ShapeType(d, TopShape(p)) \in {"SOLID", "SHELL"}
    /\ ~AlreadyProcessed(p.tc, TopShape(p))

\* compute() is at a call that reads or writes the triangulations kept in
\* the document (lines 181 and 115), has returned, or cannot go on.
AtKernelCall(d, p) ==
    p.pc \in {"clean", "done"} \/ ~CanStep(d, p) \/ NeedsMesh(d, p)

\* The statements up to the next such call: they touch the context of the
\* calling thread only.
RECURSIVE ToKernelCall(_, _)
ToKernelCall(d, p) ==
    IF AtKernelCall(d, p) THEN p ELSE ToKernelCall(d, PassStep(d, p))

\* The context with the triangulations the document carries at the moment
\* of a kernel call, and without them.
Attached(c, triangulated) == [c EXCEPT !.triangulated = triangulated]
Detached(c) == [c EXCEPT !.triangulated = {}]

\* The position of triangulateShape in its loops: the buffers st, the face
\* f and the edge e the next read is for, e = 0 for the read of line 197.
\* Lines 275-277: an edge met before is skipped without a read.
RECURSIVE NextRead(_, _)
NextRead(faces, r) ==
    IF r.f > Len(faces) \/ r.e = 0 THEN r
    ELSE IF r.e > Len(faces[r.f].edges)
         THEN NextRead(faces, [r EXCEPT !.f = @ + 1, !.e = 0])
    ELSE IF faces[r.f].edges[r.e].tshape \in r.st.processedEdgeSet
         THEN NextRead(faces, [r EXCEPT !.e = @ + 1])
    ELSE r

\* Line 181, then lines 189-192: the mesher has run and the face loop starts.
MeshCall(d, p, triangulated) ==
    LET c == IncrementalMesh(Attached(p.tc, triangulated), TopShape(p).tshape)
    IN  [triangulated |-> c.triangulated,
         p   |-> [p EXCEPT !.tc = Detached(c)],
         run |-> Some(NextRead(ExploreFaces(d, TopShape(p)),
                               [st |-> NewShapeData(p.tc), f |-> 1, e |-> 0]))]

\* Line 197, or lines 283-285 for an edge: one read of the triangulation
\* of face r.f and what the loop appends after it.
ReadCall(d, p, r, triangulated) ==
    LET face    == ExploreFaces(d, TopShape(p))[r.f]
        polyTri == Triangulation(Attached(p.tc, triangulated), TopShape(p).tshape, face)
        st      == IF r.e = 0
                   THEN FaceTri(r.st, polyTri, face, TopShape(p).loc)
                   ELSE EdgeLineData(r.st, polyTri, ExploreEdges(face)[r.e], TopShape(p).loc)
    IN  Some(NextRead(ExploreFaces(d, TopShape(p)), [st |-> st, f |-> r.f, e |-> r.e + 1]))

\* Lines 339-362 after the face loop, then the iteration of
\* resolveShapeTree that called triangulateShape goes on with the info of
\* the shape.
StoreCall(d, p, r) ==
    ToKernelCall(d, [p EXCEPT !.tc = StoreGeometry(p.tc, ShapeKey(TopShape(p)), r.st).tc])

\* Lines 111-117, then the return of compute().
CleanCall(d, p, triangulated) ==
    LET q == CleanStep(d, [p EXCEPT !.tc = Attached(p.tc, triangulated)])
    IN  [triangulated |-> q.tc.triangulated,
         p |-> ToKernelCall(d, [q EXCEPT !.tc = Detached(q.tc)])]

\* No compute() is running on the object.
NoObjPass == [p |-> NewPass, run |-> None]

----------------------------------------------------------------------------
(* Documents                                                               *)

\* Bounds of the documents explored.
MaxFaces == 2
MaxChildren == 2

\* Placements: a translation and a mirror that do not commute.
Shift == Trsf(1, 2)
Mirror == Trsf(-1, 1)

\* What the tessellation primitive attaches to a face.
PolyTri(nodes, triangles) ==
    [nodes     |-> nodes,
     normals   |-> [i \in 1..Len(nodes) |-> <<1, 0, 1>>],
     uvNodes   |-> [i \in 1..Len(nodes) |-> <<2 * (i % 2), 2 * ((i \div 2) % 2)>>],
     triangles |-> triangles]

Tri1 == PolyTri(<< <<0, 0, 0>>, <<1, 0, 0>>, <<0, 1, 0>> >>, << <<1, 2, 3>> >>)
Tri2 == PolyTri(<< <<0, 0, 0>>, <<1, 0, 0>>, <<1, 1, 0>>, <<0, 1, 0>> >>,
                << <<1, 2, 3>>, <<1, 3, 4>> >>)
TriNoTriangles == PolyTri(<< <<0, 0, 0>>, <<1, 0, 0>>, <<0, 1, 0>> >>, <<>>)
TriNoNodes == PolyTri(<<>>, <<>>)

UVBox == [umin |-> 0, umax |-> 2, vmin |-> 0, vmax |-> 2]

Face(orientation, loc, tri, edges) ==
    [orientation |-> orientation, loc |-> loc, tri |-> tri, uv |-> UVBox, edges |-> edges]

Edge(id, loc, poly, curve) == [tshape |-> id, loc |-> loc, poly |-> poly, curve |-> curve]

\* The first n points of a sampled curve.
CurvePoints(n) == [i \in 1..n |-> <<i, i * i, 0>>]

TShape(type, children, faces) == [type |-> type, children |-> children, faces |-> faces]

Label(top, shape, free, name, surf, curv, gen, ref) ==
    [top |-> top, shape |-> shape, free |-> free, name |-> name,
     surf |-> surf, curv |-> curv, gen |-> gen, ref |-> ref]

Red == <<1, 0, 0>>
Green == <<0, 1, 0>>
Blue == <<0, 0, 1>>

\* --- assemblies over a fixed catalogue of parts ---

\* S1: two faces sharing edge e2; S2 shares edge e1 with S1; H: a shell
\* whose faces get no triangulation; S0: a solid that yields no geometry;
\* S3: a solid without edges.
PartCatalogue ==
    [S1 |-> TShape("SOLID", <<>>,
                << Face("FORWARD", IdentityTrsf, Some(Tri1),
                        << Edge("e1", IdentityTrsf, Some(<<1, 2>>), CurvePoints(2)),
                           Edge("e2", IdentityTrsf, Some(<<2, 3>>), CurvePoints(2)) >>),
                   Face("REVERSED", Mirror, Some(Tri2),
                        << Edge("e2", IdentityTrsf, Some(<<1, 2>>), CurvePoints(2)),
                           Edge("e3", Shift, None, CurvePoints(3)) >>) >>),
     S2 |-> TShape("SOLID", <<>>,
                << Face("FORWARD", Shift, Some(Tri1),
                        << Edge("e1", IdentityTrsf, Some(<<1, 2>>), CurvePoints(2)),
                           Edge("e4", IdentityTrsf, Some(<<1, 2, 3>>), CurvePoints(2)) >>) >>),
     H  |-> TShape("SHELL", <<>>,
                << Face("FORWARD", IdentityTrsf, None,
                        << Edge("e5", Mirror, Some(<<1, 2>>), CurvePoints(2)) >>) >>),
     S0 |-> TShape("SOLID", <<>>,
                << Face("FORWARD", IdentityTrsf, Some(TriNoTriangles),
                        << Edge("e6", IdentityTrsf, None, CurvePoints(1)) >>) >>),
     S3 |-> TShape("SOLID", <<>>,
                << Face("REVERSED", IdentityTrsf, Some(Tri1), <<>>) >>),
     E  |-> TShape("EDGE", <<>>, <<>>),
     V  |-> TShape("VERTEX", <<>>, <<>>),
     B  |-> TShape("COMPOUND", << Shape("S1", Shift), Shape("S2", Mirror),
                                  Shape("S0", IdentityTrsf) >>, <<>>),
     C  |-> TShape("COMPSOLID", << Shape("S2", IdentityTrsf) >>, <<>>)]

\* The occurrences a root assembly may contain.
ChildOccurrences ==
    { Shape("S1", IdentityTrsf), Shape("S1", Shift), Shape("S1", Mirror),
      Shape("S2", IdentityTrsf), Shape("S2", Shift), Shape("H", Shift),
      Shape("S0", IdentityTrsf), Shape("B", IdentityTrsf), Shape("B", Mirror),
      Shape("B", Shift), Shape("C", Shift), Shape("E", IdentityTrsf),
      Shape("V", IdentityTrsf), Shape("S3", Mirror) }

\* The labels of an assembly document: the prototypes of the parts, the
\* instances that refer to them (label 8 through label 9), a label that
\* holds no shape, and the free shapes A and (when bFree) B.
AssemblyLabels(bFree) ==
    << Label(TRUE, Some(Shape("B", IdentityTrsf)), bFree, Some("sub"), None, None, None, NoLabel),
       Label(TRUE, None, TRUE, Some("notes"), Some(Blue), None, None, NoLabel),
       Label(TRUE, Some(Shape("A", IdentityTrsf)), TRUE, Some("asm"), None, None, None, NoLabel),
       Label(TRUE, Some(Shape("S1", IdentityTrsf)), FALSE, Some("s1"), Some(Red), None, Some(Blue), NoLabel),
       Label(TRUE, Some(Shape("S2", IdentityTrsf)), FALSE, Some("s2"), None, Some(Red), Some(Green), NoLabel),
       Label(TRUE, Some(Shape("H", IdentityTrsf)), FALSE, None, None, None, Some(Green), NoLabel),
       Label(FALSE, Some(Shape("S1", Shift)), FALSE, Some("s1-a"), Some(Blue), None, None, 4),
       Label(FALSE, Some(Shape("S2", Shift)), FALSE, Some("s2-a"), None, None, None, 9),
       Label(FALSE, None, FALSE, Some("s2-b"), Some(Green), None, None, 5),
       Label(FALSE, Some(Shape("S1", Mirror)), FALSE, None, None, None, None, 4),
       Label(TRUE, Some(Shape("E", IdentityTrsf)), FALSE, Some("wire"), None, Some(Green), None, NoLabel) >>

AssemblyDoc(children, bFree) ==
    [tshapes |-> [A |-> TShape("COMPOUND", children, <<>>)] @@ PartCatalogue,
     labels  |-> AssemblyLabels(bFree)]

\* All sequences over S of length lo..hi.
SeqsOf(S, lo, hi) == UNION {[1..n -> S] : n \in lo..hi}

AssemblyDocs ==
    {AssemblyDoc(ch, b) : ch \in SeqsOf(ChildOccurrences, 0, MaxChildren), b \in BOOLEAN}

\* --- one free solid whose faces are enumerated ---

SolidDoc(faces) ==
    [tshapes |-> [P |-> TShape("SOLID", <<>>, faces)],
     labels  |-> << Label(TRUE, Some(Shape("P", Shift)), TRUE, Some("part"),
                          None, None, Some(Red), NoLabel) >>]

\* Faces without edges: every orientation, placement and triangulation.
SurfaceFaces ==
    {Face(o, l, t, <<>>) :
        o \in {"FORWARD", "REVERSED"}, l \in {IdentityTrsf, Mirror},
        t \in {None, Some(Tri1), Some(Tri2), Some(TriNoTriangles), Some(TriNoNodes)}}

\* Edge lists: polygons of 1..3 nodes, sampled curves of 1..3 points, an
\* edge met twice in one face.
EdgeLists ==
    { <<>>,
      << Edge("e1", IdentityTrsf, Some(<<1, 2, 3>>), CurvePoints(2)) >>,
      << Edge("e1", Shift, None, CurvePoints(3)) >>,
      << Edge("e2", IdentityTrsf, Some(<<2>>), CurvePoints(2)) >>,
      << Edge("e2", Mirror, None, CurvePoints(1)) >>,
      << Edge("e1", IdentityTrsf, Some(<<3, 1>>), CurvePoints(3)),
         Edge("e2", IdentityTrsf, None, CurvePoints(2)) >>,
      << Edge("e3", IdentityTrsf, Some(<<1, 2>>), CurvePoints(2)),
         Edge("e3", IdentityTrsf, Some(<<1, 2>>), CurvePoints(2)) >> }

\* Faces with edges, with and without a triangulation.
WireFaces ==
    {Face("FORWARD", IdentityTrsf, t, es) : t \in {None, Some(Tri1)}, es \in EdgeLists}

SolidDocs ==
    {SolidDoc(fs) : fs \in SeqsOf(SurfaceFaces, 1, MaxFaces) \cup SeqsOf(WireFaces, 1, MaxFaces)}

Documents == AssemblyDocs \cup SolidDocs

\* --- label tables with every reference structure ---

MaxLabels == 3

\* Every way the labels can refer to each other, cycles included: the
\* referred label is whatever the tree node of the label holds.
ReferenceTables == [1..MaxLabels -> {NoLabel} \cup (1..MaxLabels)]

ReferenceDoc(refs) ==
    [tshapes |-> [P |-> TShape("SOLID", <<>>, <<>>)],
     labels  |-> [l \in 1..MaxLabels |->
                    Label(l = 1, IF l = 1 THEN Some(Shape("P", IdentityTrsf)) ELSE None,
                          l = 1, None, None, None, None, refs[l])]]

ReferenceDocuments == {ReferenceDoc(refs) : refs \in ReferenceTables}

----------------------------------------------------------------------------
(* ModelContext, AsyncTask, CadImportAsyncTask                             *)

\* Bounds of the threads explored.
NumSync == 1
NumTasks == 1

\* The threads that call computeTriangulation() themselves.
SyncThreads == 1..NumSync
\* The TriangulationAsyncTask objects; worker k is the detached thread that
\* computeTriangulationAsync(task k) starts.
Tasks == 1..NumTasks

SyncId(i) == <<"sync", i>>
WorkerId(k) == <<"worker", k>>
HostId == <<"host", 0>>

\* A document small enough to be carried through every interleaving.
SharedSolidDoc ==
    AssemblyDoc(<< Shape("S1", Shift), Shape("S1", Mirror) >>, FALSE)
\* The document two ModelContext objects share: one solid, one face, one
\* edge that has a polygon on the triangulation of the face and a curve.
CopyDoc ==
    SolidDoc(<< Face("FORWARD", IdentityTrsf, Some(Tri1),
                     << Edge("e1", IdentityTrsf, Some(<<1, 2, 3>>), CurvePoints(2)) >>) >>)
ThreadDocuments ==
    { SharedSolidDoc,
      AssemblyDoc(<< Shape("S0", IdentityTrsf) >>, TRUE),
      SolidDoc(<< Face("REVERSED", Mirror, Some(Tri1), <<>>) >>) }

\* ModelContext(document), model_context.hpp 225-230: the handles are set,
\* the cached model is empty.
NewModelContext == [doc |-> Some("document"), triangulatedModel |-> None]

\* TriangulatedModel after its vectors were moved out.
MovedFromModel == [tris |-> <<>>, lines |-> <<>>, materials |-> <<>>, meshes |-> <<>>]

\* ModelContext(ModelContext&& other), model_context.hpp 243-252: what is
\* left in other: null handles; the optional stays engaged when it was.
MovedFromModelContext(other) ==
    [doc |-> None,
     triangulatedModel |-> IF HasValue(other.triangulatedModel)
                           THEN Some(MovedFromModel) ELSE None]

\* std::optional<T>(std::optional<T>&&): the source keeps a value when it
\* had one, and that value is the moved-from T.
MovedFromOptionalBool(value) == value
MovedFromOptionalContext(value) ==
    IF HasValue(value) THEN Some(MovedFromModelContext(ValueOf(value))) ELSE None

\* AsyncTask(), async_task.hpp 26-28; CadImportAsyncTask(), cad_import.cpp 42-44
NewAsyncTask == [completed |-> FALSE, value |-> None]
NewCadImportAsyncTask == [completed |-> FALSE, modelContext |-> None]

\* A setValue that stores the value and leaves the flag alone.
setValueWithoutFlag(t, newValue) == [t EXCEPT !.value = newValue]

\* AsyncTask::setValue, async_task.hpp 40-44
setValue(t, newValue) == [completed |-> TRUE, value |-> newValue]

\* AsyncTask::takeValue, async_task.hpp 35-38: the value returned and the
\* task afterwards.
takeValue(t) ==
    [returned |-> t.value, task |-> [t EXCEPT !.value = MovedFromOptionalBool(@)]]

\* AsyncTask::isCompleted, async_task.hpp 30-33
isCompleted(t) == t.completed

\* CadImportAsyncTask::setModelContext, cad_import.cpp 56-60
setModelContext(t, context) == [completed |-> TRUE, modelContext |-> context]

\* CadImportAsyncTask::takeModelContext, cad_import.cpp 51-54
takeModelContext(t) ==
    [returned |-> t.modelContext,
     task |-> [t EXCEPT !.modelContext = MovedFromOptionalContext(@)]]

\* A lock that excludes nobody.
CanLockAlways(mutex) == TRUE

\* std::lock_guard<std::mutex> lock(triangulationMutex), model_context.cpp
\* 153: the constructor returns once no thread holds the mutex.
CanLock(mutex) == mutex = None

\* A check that never finds the cached model.
CachedNever(model) == FALSE

\* model_context.cpp 156: the early return of computeTriangulation.
Cached(model) == HasValue(model)

\* ModelTriangulationImpl::computeTriangulation, lines 453-459
computeTriangulationImpl(d) == RunPass(d, NewPass)

\* The pass reads nothing but the document: what it returns on each
\* document of the threads, computed once.
ImplResults == {<<d, computeTriangulationImpl(d)>> : d \in ThreadDocuments}
ResultOfImpl(d) == (CHOOSE e \in ImplResults : e[1] = d)[2]

\* Two ModelContext objects over one document, and the threads that copy
\* or move one into the other or into a new object.
Objects == {"a", "b"}
NumCopiers == 2
Copiers == 1..NumCopiers
CopierId(c) == <<"copier", c>>
ComputeId(o) == <<"compute", o>>

\* The four operations of model_context.hpp 232-280; to is the object
\* assigned to, "new" for the object a constructor builds.
OpKinds == {"copy-construct", "move-construct", "copy-assign", "move-assign"}
IsAssignment(op) == op.kind \in {"copy-assign", "move-assign"}
IsMove(op) == op.kind \in {"move-construct", "move-assign"}
NoOp == [kind |-> "none", to |-> "new", from |-> "new"]
Operations ==
    {[kind |-> k, to |-> "new", from |-> f] :
        k \in {"copy-construct", "move-construct"}, f \in Objects}
    \cup {op \in [kind : {"copy-assign", "move-assign"}, to : Objects, from : Objects] :
              op.to # op.from}

\* A moved-from Handle is null.
NullHandle == None

\* The handles after the member initialisers (233-235, 244-246) or the
\* first three assignments (256-258, 270-272) of op. A copy leaves the
\* source alone; the move constructor of a Handle takes the pointer and
\* leaves the source null; the move assignment of a Handle swaps the two
\* pointers, so the source ends with the former handles of the target.
HandlesAfter(handles, op) ==
    [o \in Objects |->
        IF o = op.to THEN handles[op.from]
        ELSE IF o = op.from /\ op.kind = "move-construct" THEN NullHandle
        ELSE IF o = op.from /\ op.kind = "move-assign" THEN handles[op.to]
        ELSE handles[o]]

\* std::optional<TriangulatedModel>(std::move(other)): the source keeps a
\* value when it had one, and that value is the moved-from model.
MovedFromOptionalModel(value) == IF HasValue(value) THEN Some(MovedFromModel) ELSE None

\* The cached models after line 240, 251, 263 or 277 of op.
ModelsAfter(models, op) ==
    [o \in Objects |->
        IF o = op.to THEN models[op.from]
        ELSE IF o = op.from /\ IsMove(op) THEN MovedFromOptionalModel(models[o])
        ELSE models[o]]

\* One access of thread c to a member of an object: whether c holds the
\* mutex of the object, and whether a computeTriangulation() on the object
\* is between taking and releasing it.
Access(mutexes, c, object, member) ==
    [object |-> object, member |-> member,
     held |-> mutexes[object] = Some(CopierId(c)),
     running |-> mutexes[object] = Some(ComputeId(object))]

\* One read of ModelContext::triangulatedModel by thread id, made by a
\* statement that takes no lock: whether id holds triangulationMutex, and
\* whether another thread is inside computeTriangulation() between taking
\* the mutex (line 153) and the end of the assignment of line 160.
ModelRead(id, member, mutex, positions) ==
    [by |-> id, member |-> member,
     held |-> mutex = Some(id),
     running |-> \E t \in DOMAIN positions : t # id /\ mutex = Some(t) /\ positions[t] = "compute"]

\* The objects op reads or writes.
Touched(op) == {op.from, op.to} \cap Objects

\* The count of takes of a task after its result was stored: none, the
\* first, a later one.
NextTake(n) == IF n = "none" THEN "first" ELSE "later"

----------------------------------------------------------------------------
(* State                                                                   *)

VARIABLES
    doc,                \* the document (read-only input of the pass)
    pass,               \* the running call of TriangulationContext::compute
    ctxDoc,             \* ModelContext::doc of the host's ModelContext; None: not built yet
    triangulatedModel,  \* ModelContext::triangulatedModel
    triangulationMutex, \* ModelContext::triangulationMutex: None or Some(holder)
    pcSync,             \* position of each thread calling computeTriangulation()
    pcWorker,           \* position of each detached worker thread
    returned,           \* the thread has returned from computeTriangulation() before
    task,               \* the TriangulationAsyncTask objects
    takes,              \* takes of task k since its result was stored
    lastTaken,          \* what the last takeValue() on task k returned
    polled,             \* what the last isCompleted() on task k returned
    implCalls,          \* executions of ModelTriangulationImpl::computeTriangulation
    meshCalls,          \* constructions of BRepMesh_IncrementalMesh, all passes
    importPc,           \* position of the worker of CadImport::fromStepAsync
    importTask,         \* the CadImportAsyncTask
    importTakes,        \* takes of the import task since its result was stored
    importLastTaken,    \* what the last takeModelContext() returned
    objHandles,         \* doc, shapeTool, colorTool of each ModelContext object
    objModel,           \* triangulatedModel of each ModelContext object
    objMutex,           \* triangulationMutex of each ModelContext object
    pcCompute,          \* position of the thread calling computeTriangulation() on each object
    pcCopier,           \* position of each thread that copies or moves a ModelContext
    copyOp,             \* the copy or move each such thread executes
    copyAccess,         \* the accesses the copies and moves have made to the objects
    objPass,            \* the compute() running for each object: its state and its place in triangulateShape
    docTriangulated,    \* the identities whose faces carry a triangulation in the document of the objects
    resolve,            \* the running call of resolveReferredShapeLabel
    modelAccess,        \* the reads of triangulatedModel made outside computeTriangulation()
    hasValueRead        \* what has_value() gave worker k at line 167; None: not read yet

passVars == <<pass>>
ctxVars == <<ctxDoc, triangulatedModel, triangulationMutex, implCalls, meshCalls>>
threadVars == <<pcSync, pcWorker, returned>>
taskVars == <<task, takes, lastTaken, polled>>
importVars == <<importPc, importTask, importTakes, importLastTaken>>
kernelVars == <<objPass, docTriangulated>>
copyVars == <<objHandles, objModel, objMutex, pcCompute, pcCopier, copyOp, copyAccess, kernelVars>>
resolveVars == <<resolve>>
accessVars == <<modelAccess, hasValueRead>>
vars == <<doc, passVars, ctxVars, threadVars, taskVars, importVars, copyVars, resolveVars,
          accessVars>>

\* No call of resolveReferredShapeLabel is running.
NoResolve == [pc |-> "idle", label |-> NoLabel, resolvedLabel |-> NoLabel, visited |-> {}]

\* The state before the host has done anything.
Idle ==
    /\ pass = NewPass
    /\ ctxDoc = None
    /\ triangulatedModel = None
    /\ triangulationMutex = None
    /\ pcSync = [i \in SyncThreads |-> "idle"]
    /\ pcWorker = [k \in Tasks |-> "unspawned"]
    /\ returned = [i \in SyncThreads |-> FALSE]
    /\ task = [k \in Tasks |-> NewAsyncTask]
    /\ takes = [k \in Tasks |-> "none"]
    /\ lastTaken = [k \in Tasks |-> None]
    /\ polled = [k \in Tasks |-> FALSE]
    /\ implCalls = 0
    /\ meshCalls = 0
    /\ importPc = "unspawned"
    /\ importTask = NewCadImportAsyncTask
    /\ importTakes = "none"
    /\ importLastTaken = None
    /\ objHandles = [o \in Objects |-> NewModelContext.doc]
    /\ objModel = [o \in Objects |-> NewModelContext.triangulatedModel]
    /\ objMutex = [o \in Objects |-> None]
    /\ pcCompute = [o \in Objects |-> "idle"]
    /\ pcCopier = [c \in Copiers |-> "idle"]
    /\ copyOp = [c \in Copiers |-> NoOp]
    /\ copyAccess = {}
    /\ objPass = [o \in Objects |-> NoObjPass]
    /\ docTriangulated = {}
    /\ resolve = NoResolve
    /\ modelAccess = {}
    /\ hasValueRead = [k \in Tasks |-> None]

----------------------------------------------------------------------------
(* The triangulation pass, step by step                                    *)

InitPass ==
    /\ doc \in Documents
    /\ Idle

\* compute(), lines 88-95: the label loop visits the next label.
ComputeVisitLabel ==
    /\ pass.pc = "labels" /\ pass.labelIt <= Len(doc.labels)
    /\ pass' = VisitLabel(doc, pass)
    /\ UNCHANGED <<doc, copyVars, resolveVars, accessVars, ctxVars, threadVars, taskVars, importVars>>

\* resolveShapeTree(), lines 374-449: one iteration of the stack loop.
ResolveShapeTreeIter ==
    /\ pass.pc = "flatten" /\ CanStep(doc, pass)
    /\ pass' = FlattenStep(doc, pass)
    /\ UNCHANGED <<doc, copyVars, resolveVars, accessVars, ctxVars, threadVars, taskVars, importVars>>

\* compute(), lines 97-108: after the label loop.
ComputeAssemble ==
    /\ pass.pc = "labels" /\ pass.labelIt > Len(doc.labels)
    /\ pass' = Assemble(pass)
    /\ UNCHANGED <<doc, copyVars, resolveVars, accessVars, ctxVars, threadVars, taskVars, importVars>>

\* compute(), lines 111-117
ComputeClean ==
    /\ pass.pc = "clean"
    /\ pass' = CleanStep(doc, pass)
    /\ UNCHANGED <<doc, copyVars, resolveVars, accessVars, ctxVars, threadVars, taskVars, importVars>>

\* compute(), lines 119-124
ComputeReturn ==
    /\ pass.pc = "return"
    /\ pass' = ReturnStep(pass)
    /\ UNCHANGED <<doc, copyVars, resolveVars, accessVars, ctxVars, threadVars, taskVars, importVars>>

NextPass ==
    \/ ComputeVisitLabel
    \/ ResolveShapeTreeIter
    \/ ComputeAssemble
    \/ ComputeClean
    \/ ComputeReturn

SpecPass == InitPass /\ [][NextPass]_vars

----------------------------------------------------------------------------
(* The host, the callers of computeTriangulation and the workers           *)

Init ==
    /\ doc \in ThreadDocuments
    /\ Idle

\* CadImport::fromStep, cad_import.cpp 93-96: the import on the calling
\* thread; a ModelContext when the data could be read and transferred.
FromStep ==
    /\ ctxDoc = None /\ importPc = "unspawned"
    /\ \E ok \in BOOLEAN :
          /\ ctxDoc' = IF ok THEN NewModelContext.doc ELSE None
          /\ importPc' = IF ok THEN "unused" ELSE "failed"
    /\ UNCHANGED <<doc, copyVars, resolveVars, accessVars, passVars, triangulatedModel, triangulationMutex, implCalls,
                   meshCalls, threadVars, taskVars, importTask, importTakes, importLastTaken>>

\* CadImport::fromStepAsync, cad_import.cpp 99-104: starts the worker.
FromStepAsync ==
    /\ ctxDoc = None /\ importPc = "unspawned"
    /\ importPc' = "running"
    /\ UNCHANGED <<doc, copyVars, resolveVars, accessVars, passVars, ctxVars, threadVars, taskVars,
                   importTask, importTakes, importLastTaken>>

\* The import worker, cad_import.cpp 101-103:
\* task.setModelContext(fromStepInternal(data)).
ImportWorker ==
    /\ importPc = "running"
    /\ \E ok \in BOOLEAN :
          importTask' = setModelContext(importTask,
                                        IF ok THEN Some(NewModelContext) ELSE None)
    /\ importPc' = "done"
    /\ UNCHANGED <<doc, copyVars, resolveVars, accessVars, passVars, ctxVars, threadVars, taskVars, importTakes, importLastTaken>>

\* The host calls CadImportAsyncTask::takeModelContext; the first context
\* it gets becomes the ModelContext it works with.
TakeModelContext ==
    LET r == takeModelContext(importTask)
    IN  /\ importTask' = r.task
        /\ importLastTaken' = r.returned
        /\ importTakes' = IF importTask.completed THEN NextTake(importTakes) ELSE importTakes
        /\ ctxDoc' = IF ctxDoc = None /\ HasValue(r.returned)
                     THEN ValueOf(r.returned).doc ELSE ctxDoc
        /\ UNCHANGED <<doc, copyVars, resolveVars, accessVars, passVars, triangulatedModel, triangulationMutex, implCalls,
                       meshCalls, threadVars, taskVars, importPc>>

\* A thread calls ModelContext::computeTriangulation, model_context.cpp 151.
CallComputeTriangulation(i) ==
    /\ HasValue(ctxDoc) /\ pcSync[i] = "idle"
    /\ pcSync' = [pcSync EXCEPT ![i] = "lock"]
    /\ UNCHANGED <<doc, copyVars, resolveVars, accessVars, passVars, ctxVars, pcWorker, returned, taskVars, importVars>>

\* ModelContext::computeTriangulationAsync, model_context.cpp 164-169: the
\* detached thread of task k starts with computeTriangulation().
ComputeTriangulationAsync(k) ==
    /\ HasValue(ctxDoc) /\ pcWorker[k] = "unspawned"
    /\ pcWorker' = [pcWorker EXCEPT ![k] = "lock"]
    /\ UNCHANGED <<doc, copyVars, resolveVars, accessVars, passVars, ctxVars, pcSync, returned, taskVars, importVars>>

\* The steps of computeTriangulation() on a thread at position pos:
\* line 153, the lock is taken.
LockStep(id, pos) ==
    /\ pos = "lock" /\ CanLock(triangulationMutex)
    /\ triangulationMutex' = Some(id)
    /\ UNCHANGED <<triangulatedModel, implCalls, meshCalls>>

\* lines 156-158, the cached model is looked for.
CheckStep(pos) ==
    /\ pos = "check"
    /\ UNCHANGED <<triangulatedModel, triangulationMutex, implCalls, meshCalls>>

\* line 160, the pass r has run to its end and its result is stored.
StoreResult(r) ==
    /\ HasValue(r)
    /\ triangulatedModel' = ValueOf(r).result
    /\ meshCalls' = meshCalls + Len(ValueOf(r).tc.meshLog)
    /\ implCalls' = implCalls + 1

ComputeStep(pos) ==
    /\ pos = "compute"
    /\ StoreResult(ResultOfImpl(doc))
    /\ UNCHANGED triangulationMutex

\* line 157 or 161, the lock_guard releases the mutex.
UnlockStep(pos) ==
    /\ pos \in {"cached", "computed"}
    /\ triangulationMutex' = None
    /\ UNCHANGED <<triangulatedModel, implCalls, meshCalls>>

AfterCheck == IF Cached(triangulatedModel) THEN "cached" ELSE "compute"

\* The position of every thread that runs computeTriangulation().
Positions ==
    [t \in {SyncId(i) : i \in SyncThreads} \cup {WorkerId(k) : k \in Tasks} |->
        IF t[1] = "sync" THEN pcSync[t[2]] ELSE pcWorker[t[2]]]

SyncLock(i) ==
    /\ LockStep(SyncId(i), pcSync[i])
    /\ pcSync' = [pcSync EXCEPT ![i] = "check"]
    /\ UNCHANGED <<doc, copyVars, resolveVars, accessVars, passVars, ctxDoc, pcWorker, returned, taskVars, importVars>>

SyncCheck(i) ==
    /\ CheckStep(pcSync[i])
    /\ pcSync' = [pcSync EXCEPT ![i] = AfterCheck]
    /\ UNCHANGED <<doc, copyVars, resolveVars, accessVars, passVars, ctxDoc, pcWorker, returned, taskVars, importVars>>

SyncCompute(i) ==
    /\ ComputeStep(pcSync[i])
    /\ pcSync' = [pcSync EXCEPT ![i] = "computed"]
    /\ UNCHANGED <<doc, copyVars, resolveVars, accessVars, passVars, ctxDoc, pcWorker, returned, taskVars, importVars>>

SyncReturn(i) ==
    /\ UnlockStep(pcSync[i])
    /\ pcSync' = [pcSync EXCEPT ![i] = "idle"]
    /\ returned' = [returned EXCEPT ![i] = TRUE]
    /\ UNCHANGED <<doc, copyVars, resolveVars, accessVars, passVars, ctxDoc, pcWorker, taskVars, importVars>>

WorkerLock(k) ==
    /\ LockStep(WorkerId(k), pcWorker[k])
    /\ pcWorker' = [pcWorker EXCEPT ![k] = "check"]
    /\ UNCHANGED <<doc, copyVars, resolveVars, accessVars, passVars, ctxDoc, pcSync, returned, taskVars, importVars>>

WorkerCheck(k) ==
    /\ CheckStep(pcWorker[k])
    /\ pcWorker' = [pcWorker EXCEPT ![k] = AfterCheck]
    /\ UNCHANGED <<doc, copyVars, resolveVars, accessVars, passVars, ctxDoc, pcSync, returned, taskVars, importVars>>

WorkerCompute(k) ==
    /\ ComputeStep(pcWorker[k])
    /\ pcWorker' = [pcWorker EXCEPT ![k] = "computed"]
    /\ UNCHANGED <<doc, copyVars, resolveVars, accessVars, passVars, ctxDoc, pcSync, returned, taskVars, importVars>>

WorkerReturn(k) ==
    /\ UnlockStep(pcWorker[k])
    /\ pcWorker' = [pcWorker EXCEPT ![k] = "hasValue"]
    /\ UNCHANGED <<doc, copyVars, resolveVars, accessVars, passVars, ctxDoc, pcSync, returned, taskVars, importVars>>

\* model_context.cpp 167, the argument of setValue:
\* triangulatedModel.has_value() is read with no lock held.
WorkerHasValue(k) ==
    /\ pcWorker[k] = "hasValue"
    /\ hasValueRead' = [hasValueRead EXCEPT ![k] = Some(HasValue(triangulatedModel))]
    /\ modelAccess' = modelAccess \cup
                         {ModelRead(WorkerId(k), "has_value", triangulationMutex, Positions)}
    /\ pcWorker' = [pcWorker EXCEPT ![k] = "setValue"]
    /\ UNCHANGED <<doc, copyVars, resolveVars, passVars, ctxVars, pcSync, returned, taskVars,
                   importVars>>

\* model_context.cpp 167, the call: task.setValue(...) takes the mutex of
\* the task (async_task.hpp 41) and stores the value read before.
WorkerSetValue(k) ==
    /\ pcWorker[k] = "setValue"
    /\ task' = [task EXCEPT ![k] = setValue(@, hasValueRead[k])]
    /\ pcWorker' = [pcWorker EXCEPT ![k] = "done"]
    /\ UNCHANGED <<doc, copyVars, resolveVars, accessVars, passVars, ctxVars, pcSync, returned, takes,
                   lastTaken, polled, importVars>>

\* The host thread calls ModelContext::getTriangulatedModel, model_context.cpp
\* 172-174, and reads the optional the reference points to; it is not inside
\* a computeTriangulation() of its own.
GetTriangulatedModel ==
    /\ HasValue(ctxDoc)
    /\ \A i \in SyncThreads : pcSync[i] = "idle"
    /\ modelAccess' = modelAccess \cup
                         {ModelRead(HostId, "getTriangulatedModel", triangulationMutex, Positions)}
    /\ UNCHANGED hasValueRead
    /\ UNCHANGED <<doc, copyVars, resolveVars, passVars, ctxVars, threadVars, taskVars, importVars>>

\* The host polls AsyncTask::isCompleted.
IsCompleted(k) ==
    /\ polled' = [polled EXCEPT ![k] = isCompleted(task[k])]
    /\ UNCHANGED <<doc, copyVars, resolveVars, accessVars, passVars, ctxVars, threadVars, task, takes, lastTaken, importVars>>

\* The host calls AsyncTask::takeValue.
TakeValue(k) ==
    LET r == takeValue(task[k])
    IN  /\ task' = [task EXCEPT ![k] = r.task]
        /\ lastTaken' = [lastTaken EXCEPT ![k] = r.returned]
        /\ takes' = [takes EXCEPT ![k] = IF task[k].completed THEN NextTake(@) ELSE @]
        /\ UNCHANGED <<doc, copyVars, resolveVars, accessVars, passVars, ctxVars, threadVars, polled, importVars>>

Next ==
    \/ FromStep
    \/ FromStepAsync
    \/ ImportWorker
    \/ TakeModelContext
    \/ GetTriangulatedModel
    \/ \E i \in SyncThreads :
          \/ CallComputeTriangulation(i)
          \/ SyncLock(i)
          \/ SyncCheck(i)
          \/ SyncCompute(i)
          \/ SyncReturn(i)
    \/ \E k \in Tasks :
          \/ ComputeTriangulationAsync(k)
          \/ WorkerLock(k)
          \/ WorkerCheck(k)
          \/ WorkerCompute(k)
          \/ WorkerReturn(k)
          \/ WorkerHasValue(k)
          \/ WorkerSetValue(k)
          \/ IsCompleted(k)
          \/ TakeValue(k)

Spec == Init /\ [][Next]_vars

\* Fair scheduling: every thread that can take a step eventually takes it,
\* and a thread waiting for the mutex gets it when it is released again and
\* again.
Fairness ==
    /\ WF_vars(ImportWorker)
    /\ \A i \in SyncThreads :
          WF_vars(SyncCheck(i) \/ SyncCompute(i) \/ SyncReturn(i))
    /\ \A k \in Tasks :
          /\ SF_vars(WorkerLock(k))
          /\ WF_vars(WorkerCheck(k) \/ WorkerCompute(k) \/ WorkerReturn(k) \/ WorkerHasValue(k)
                     \/ WorkerSetValue(k))

SpecFair == Spec /\ Fairness

----------------------------------------------------------------------------
(* Copies and moves of ModelContext objects next to computeTriangulation   *)

hostVars == <<doc, passVars, ctxVars, threadVars, taskVars, importVars, resolveVars, accessVars>>

InitCopy ==
    /\ doc = CopyDoc
    /\ Idle

\* A thread calls computeTriangulation() on object o, model_context.cpp 151.
ObjCall(o) ==
    /\ pcCompute[o] = "idle"
    /\ pcCompute' = [pcCompute EXCEPT ![o] = "lock"]
    /\ UNCHANGED <<hostVars, kernelVars, objHandles, objModel, objMutex, pcCopier, copyOp, copyAccess>>

\* line 153
ObjLock(o) ==
    /\ pcCompute[o] = "lock" /\ CanLock(objMutex[o])
    /\ objMutex' = [objMutex EXCEPT ![o] = Some(ComputeId(o))]
    /\ pcCompute' = [pcCompute EXCEPT ![o] = "check"]
    /\ UNCHANGED <<hostVars, kernelVars, objHandles, objModel, pcCopier, copyOp, copyAccess>>

\* lines 156-158
ObjCheck(o) ==
    /\ pcCompute[o] = "check"
    /\ pcCompute' = [pcCompute EXCEPT ![o] = IF Cached(objModel[o]) THEN "cached" ELSE "compute"]
    /\ UNCHANGED <<hostVars, kernelVars, objHandles, objModel, objMutex, pcCopier, copyOp, copyAccess>>

\* line 160, the call: TriangulationContext copies shapeTool and colorTool
\* of the object; through null handles compute() dereferences a null
\* pointer (model_triangulation_impl.cpp 88) and the call never returns.
\* Otherwise compute() runs to its first kernel call.
ObjCompute(o) ==
    /\ pcCompute[o] = "compute"
    /\ IF objHandles[o] = NullHandle
       THEN /\ pcCompute' = [pcCompute EXCEPT ![o] = "crashed"]
            /\ UNCHANGED objPass
       ELSE /\ pcCompute' = [pcCompute EXCEPT ![o] = "pass"]
            /\ objPass' = [objPass EXCEPT ![o] = [p |-> ToKernelCall(doc, NewPass),
                                                  run |-> None]]
    /\ UNCHANGED <<hostVars, docTriangulated, objHandles, objModel, objMutex, pcCopier, copyOp,
                   copyAccess>>

\* The kernel calls of compute() on object o. The two objects hold one
\* document, and the mutex of one does not exclude the compute() of the
\* other: each call sees the triangulations as the calls of both have left
\* them. A kernel call is taken as one step.

\* model_triangulation_impl.cpp 181
ObjMesh(o) ==
    /\ pcCompute[o] = "pass" /\ objPass[o].run = None /\ NeedsMesh(doc, objPass[o].p)
    /\ LET m == MeshCall(doc, objPass[o].p, docTriangulated)
       IN  /\ docTriangulated' = m.triangulated
           /\ objPass' = [objPass EXCEPT ![o] = [p |-> m.p, run |-> m.run]]
    /\ UNCHANGED <<hostVars, objHandles, objModel, objMutex, pcCompute, pcCopier, copyOp,
                   copyAccess>>

\* model_triangulation_impl.cpp 197 and 283-285
ObjRead(o) ==
    /\ pcCompute[o] = "pass" /\ HasValue(objPass[o].run)
    /\ ValueOf(objPass[o].run).f <= Len(ExploreFaces(doc, TopShape(objPass[o].p)))
    /\ objPass' = [objPass EXCEPT ![o].run =
                      ReadCall(doc, objPass[o].p, ValueOf(objPass[o].run), docTriangulated)]
    /\ UNCHANGED <<hostVars, docTriangulated, objHandles, objModel, objMutex, pcCompute, pcCopier,
                   copyOp, copyAccess>>

\* model_triangulation_impl.cpp 339-362, up to the next kernel call
ObjStore(o) ==
    /\ pcCompute[o] = "pass" /\ HasValue(objPass[o].run)
    /\ ValueOf(objPass[o].run).f > Len(ExploreFaces(doc, TopShape(objPass[o].p)))
    /\ objPass' = [objPass EXCEPT ![o] =
                      [p |-> StoreCall(doc, objPass[o].p, ValueOf(objPass[o].run)),
                       run |-> None]]
    /\ UNCHANGED <<hostVars, docTriangulated, objHandles, objModel, objMutex, pcCompute, pcCopier,
                   copyOp, copyAccess>>

\* model_triangulation_impl.cpp 111-117
ObjClean(o) ==
    /\ pcCompute[o] = "pass" /\ objPass[o].run = None /\ objPass[o].p.pc = "clean"
    /\ LET m == CleanCall(doc, objPass[o].p, docTriangulated)
       IN  /\ docTriangulated' = m.triangulated
           /\ objPass' = [objPass EXCEPT ![o].p = m.p]
    /\ UNCHANGED <<hostVars, objHandles, objModel, objMutex, pcCompute, pcCopier, copyOp,
                   copyAccess>>

\* line 160, the assignment: what compute() returned is stored.
ObjAssign(o) ==
    /\ pcCompute[o] = "pass" /\ objPass[o].run = None /\ objPass[o].p.pc = "done"
    /\ objModel' = [objModel EXCEPT ![o] = objPass[o].p.result]
    /\ objPass' = [objPass EXCEPT ![o] = NoObjPass]
    /\ pcCompute' = [pcCompute EXCEPT ![o] = "computed"]
    /\ UNCHANGED <<hostVars, docTriangulated, objHandles, objMutex, pcCopier, copyOp, copyAccess>>

\* line 157 or 161
ObjReturn(o) ==
    /\ pcCompute[o] \in {"cached", "computed"}
    /\ objMutex' = [objMutex EXCEPT ![o] = None]
    /\ pcCompute' = [pcCompute EXCEPT ![o] = "idle"]
    /\ UNCHANGED <<hostVars, kernelVars, objHandles, objModel, pcCopier, copyOp, copyAccess>>

\* Thread c starts one of the four operations of model_context.hpp 232-280
\* (an assignment with this != &other).
CopierStart(c) ==
    /\ pcCopier[c] = "idle"
    /\ \E op \in Operations : copyOp' = [copyOp EXCEPT ![c] = op]
    /\ pcCopier' = [pcCopier EXCEPT ![c] = "handles"]
    /\ UNCHANGED <<hostVars, kernelVars, objHandles, objModel, objMutex, pcCompute, copyAccess>>

\* Lines 233-235, 244-246, 256-258, 270-272: doc, shapeTool and colorTool
\* are copied or moved, before any mutex is taken.
CopierHandles(c) ==
    /\ pcCopier[c] = "handles"
    /\ objHandles' = HandlesAfter(objHandles, copyOp[c])
    /\ copyAccess' = copyAccess \cup
                        {Access(objMutex, c, o, "handles") : o \in Touched(copyOp[c])}
    /\ pcCopier' = [pcCopier EXCEPT ![c] = "lockOther"]
    /\ UNCHANGED <<hostVars, kernelVars, objModel, objMutex, pcCompute, copyOp>>

\* Lines 238, 249, 260, 274: the mutex of other is taken.
CopierLockOther(c) ==
    /\ pcCopier[c] = "lockOther" /\ CanLock(objMutex[copyOp[c].from])
    /\ objMutex' = [objMutex EXCEPT ![copyOp[c].from] = Some(CopierId(c))]
    /\ pcCopier' = [pcCopier EXCEPT ![c] = IF IsAssignment(copyOp[c]) THEN "lockThis" ELSE "model"]
    /\ UNCHANGED <<hostVars, kernelVars, objHandles, objModel, pcCompute, copyOp, copyAccess>>

\* Lines 261, 275: the mutex of this is taken.
CopierLockThis(c) ==
    /\ pcCopier[c] = "lockThis" /\ CanLock(objMutex[copyOp[c].to])
    /\ objMutex' = [objMutex EXCEPT ![copyOp[c].to] = Some(CopierId(c))]
    /\ pcCopier' = [pcCopier EXCEPT ![c] = "model"]
    /\ UNCHANGED <<hostVars, kernelVars, objHandles, objModel, pcCompute, copyOp, copyAccess>>

\* Lines 240, 251, 263, 277: triangulatedModel is copied or moved.
CopierModel(c) ==
    /\ pcCopier[c] = "model"
    /\ objModel' = ModelsAfter(objModel, copyOp[c])
    /\ copyAccess' = copyAccess \cup
                        {Access(objMutex, c, o, "triangulatedModel") : o \in Touched(copyOp[c])}
    /\ pcCopier' = [pcCopier EXCEPT ![c] = IF IsAssignment(copyOp[c]) THEN "unlockThis"
                                            ELSE "unlockOther"]
    /\ UNCHANGED <<hostVars, kernelVars, objHandles, objMutex, pcCompute, copyOp>>

\* Lines 264 and 278: lockThis, constructed last, goes out of scope first.
CopierUnlockThis(c) ==
    /\ pcCopier[c] = "unlockThis"
    /\ objMutex' = [objMutex EXCEPT ![copyOp[c].to] = None]
    /\ pcCopier' = [pcCopier EXCEPT ![c] = "unlockOther"]
    /\ UNCHANGED <<hostVars, kernelVars, objHandles, objModel, pcCompute, copyOp, copyAccess>>

\* Lines 241, 252, 264 and 278: the lock_guard on other goes out of scope.
CopierUnlockOther(c) ==
    /\ pcCopier[c] = "unlockOther"
    /\ objMutex' = [objMutex EXCEPT ![copyOp[c].from] = None]
    /\ pcCopier' = [pcCopier EXCEPT ![c] = "done"]
    /\ UNCHANGED <<hostVars, kernelVars, objHandles, objModel, pcCompute, copyOp, copyAccess>>

NextCopy ==
    \/ \E o \in Objects :
          \/ ObjCall(o)
          \/ ObjLock(o)
          \/ ObjCheck(o)
          \/ ObjCompute(o)
          \/ ObjMesh(o)
          \/ ObjRead(o)
          \/ ObjStore(o)
          \/ ObjClean(o)
          \/ ObjAssign(o)
          \/ ObjReturn(o)
    \/ \E c \in Copiers :
          \/ CopierStart(c)
          \/ CopierHandles(c)
          \/ CopierLockOther(c)
          \/ CopierLockThis(c)
          \/ CopierModel(c)
          \/ CopierUnlockThis(c)
          \/ CopierUnlockOther(c)

SpecCopy == InitCopy /\ [][NextCopy]_vars

----------------------------------------------------------------------------
(* resolveReferredShapeLabel, iteration by iteration                       *)

InitResolve ==
    /\ doc \in ReferenceDocuments
    /\ Idle

\* Line 128: resolvedLabel = label.
ResolveCall(label) ==
    /\ resolve.pc = "idle"
    /\ resolve' = [pc |-> "loop", label |-> label, resolvedLabel |-> label,
                   visited |-> {label}]
    /\ UNCHANGED <<doc, copyVars, accessVars, passVars, ctxVars, threadVars, taskVars, importVars>>

\* Lines 129-133: the label is a reference; the referred label replaces it.
ResolveHop ==
    /\ resolve.pc = "loop"
    /\ IsReference(doc, resolve.resolvedLabel)
    /\ resolve' = [resolve EXCEPT !.resolvedLabel = doc.labels[@].ref,
                                  !.visited = @ \cup {doc.labels[resolve.resolvedLabel].ref}]
    /\ UNCHANGED <<doc, copyVars, accessVars, passVars, ctxVars, threadVars, taskVars, importVars>>

\* Lines 129, 134: the label is no reference; the loop ends and the label
\* is returned.
ResolveReturn ==
    /\ resolve.pc = "loop"
    /\ ~IsReference(doc, resolve.resolvedLabel)
    /\ resolve' = [resolve EXCEPT !.pc = "returned"]
    /\ UNCHANGED <<doc, copyVars, accessVars, passVars, ctxVars, threadVars, taskVars, importVars>>

NextResolve ==
    \/ \E label \in 1..Len(doc.labels) : ResolveCall(label)
    \/ ResolveHop
    \/ ResolveReturn

SpecResolve == InitResolve /\ [][NextResolve]_vars

\* The thread that runs the loop keeps running.
FairnessResolve == WF_vars(ResolveHop) /\ WF_vars(ResolveReturn)

SpecResolveFair == SpecResolve /\ FairnessResolve

----------------------------------------------------------------------------
(* Properties of ModelContext and AsyncTask                                *)

\* A thread is past the check of line 156 in its running call.
PastCheck(pos) == pos \in {"compute", "computed", "cached"}

\* C1. Idempotence of triangulation: once triangulatedModel holds a value,
\* no step of any call to computeTriangulation changes it, runs
\* ModelTriangulationImpl::computeTriangulation or constructs a mesher, and
\* no call that starts afterwards gets past the early return of line 157.
C1_StoredModelIsFinal ==
    HasValue(triangulatedModel) =>
        /\ triangulatedModel' = triangulatedModel
        /\ implCalls' = implCalls
        /\ meshCalls' = meshCalls
        /\ \A i \in SyncThreads : pcSync'[i] # "compute"
        /\ \A k \in Tasks : pcWorker'[k] # "compute"

C1_Idempotent == [][C1_StoredModelIsFinal]_vars

\* A thread that has returned from one call is back at the early return of
\* a later call, the model being the one stored by the only pass, which
\* meshed at least one shape.
C1_Witness ==
    /\ HasValue(triangulatedModel)
    /\ \E i \in SyncThreads : returned[i] /\ pcSync[i] = "cached"
    /\ implCalls = 1
    /\ meshCalls > 0

\* C2. Concurrent compute requests collapse: in every interleaving of the
\* calls of computeTriangulation and computeTriangulationAsync on one
\* ModelContext the pass has run at most once, exactly once as soon as one
\* caller is past the check or has returned, and every caller that takes
\* the early return has found the model stored.
C2_ComputeOnce ==
    /\ implCalls <= 1
    /\ \A i \in SyncThreads :
          /\ (returned[i] \/ pcSync[i] \in {"computed", "cached"}) => implCalls = 1
          /\ pcSync[i] = "cached" => HasValue(triangulatedModel)
          /\ pcSync[i] = "compute" => implCalls = 0
    /\ \A k \in Tasks :
          /\ pcWorker[k] \in {"computed", "cached", "hasValue", "setValue", "done"} => implCalls = 1
          /\ pcWorker[k] = "cached" => HasValue(triangulatedModel)
          /\ pcWorker[k] = "compute" => implCalls = 0

\* Every thread has made a call and come back from it, one of them through
\* the early return.
C2_Witness ==
    /\ \A i \in SyncThreads : returned[i] /\ pcSync[i] = "idle"
    /\ \A k \in Tasks : pcWorker[k] = "done"
    /\ implCalls = 1

\* C3. Take-once result slot: after the worker has stored a result, the
\* first take returns that result and every later take on the same task
\* returns an empty optional.
C3_TakeOnce ==
    /\ \A k \in Tasks :
          /\ takes[k] = "first" => lastTaken[k] = Some(TRUE)
          /\ takes[k] = "later" => lastTaken[k] = None
    /\ importTakes = "later" => importLastTaken = None

\* Both kinds of task have been taken from more than once after their
\* worker stored a result.
C3_Witness ==
    /\ importTakes = "later" /\ importTask.completed
    /\ \E k \in Tasks : takes[k] = "later" /\ task[k].completed

\* C4. Async completion: once computeTriangulationAsync(task) has been
\* called, the completed flag of the task eventually is true under fair
\* scheduling; the flag is true only when the worker has returned from
\* computeTriangulation and has called setValue, the model being stored;
\* and a flag that is true stays true.
C4_AsyncCompletes ==
    /\ \A k \in Tasks : (pcWorker[k] # "unspawned") ~> isCompleted(task[k])
    /\ [](\A k \in Tasks :
             isCompleted(task[k]) => pcWorker[k] = "done" /\ HasValue(triangulatedModel))
    /\ [][\A k \in Tasks : isCompleted(task[k]) => isCompleted(task'[k])]_vars

\* The host has polled a task whose worker is done and was told that it is
\* completed, the worker having run the pass itself.
C4_Witness ==
    \E k \in Tasks :
        /\ pcWorker[k] = "done" /\ polled[k]
        /\ task[k].value = Some(TRUE)
        /\ \A i \in SyncThreads : ~returned[i] /\ pcSync[i] = "idle"

----------------------------------------------------------------------------
(* Properties of the triangulation pass                                    *)

\* The Mesh list of the pass: in the context until compute() returns, in
\* the TriangulatedModel afterwards. Mesh n was made from frameLog[n].
NodesOf(p) == IF HasValue(p.result) THEN ValueOf(p.result).meshes ELSE p.tc.meshes

\* The frames popped so far that hold a Solid or a Shell.
SolidVisits ==
    {n \in 1..Len(pass.tc.frameLog) :
        ShapeType(doc, pass.tc.frameLog[n].shape) \in {"SOLID", "SHELL"}}

IdentityOf(n) == pass.tc.frameLog[n].shape.tshape

GeometryPair(node) == <<node.triGeometryIndex, node.lineGeometryIndex>>

\* C5. At most one tessellation per identity: within one pass no identity
\* is meshed twice, every Solid/Shell identity visited has been meshed,
\* and two visits of one identity give the same (triGeometryIndex,
\* lineGeometryIndex) pair, (none, none) included.
C5_OneTessellationPerIdentity ==
    /\ \A m, n \in 1..Len(pass.tc.meshLog) :
          pass.tc.meshLog[m] = pass.tc.meshLog[n] => m = n
    /\ {pass.tc.meshLog[m] : m \in 1..Len(pass.tc.meshLog)} = {IdentityOf(n) : n \in SolidVisits}
    /\ \A m, n \in SolidVisits :
          IdentityOf(m) = IdentityOf(n)
              => GeometryPair(NodesOf(pass)[m]) = GeometryPair(NodesOf(pass)[n])

\* One identity was visited twice and gave geometry both times, another
\* was visited twice and gave (none, none) both times.
C5_Witness ==
    /\ \E m, n \in SolidVisits :
          /\ m < n /\ IdentityOf(m) = IdentityOf(n)
          /\ NodesOf(pass)[n].triGeometryIndex >= 0
          /\ NodesOf(pass)[n].lineGeometryIndex >= 0
    /\ \E m, n \in SolidVisits :
          /\ m < n /\ IdentityOf(m) = IdentityOf(n)
          /\ GeometryPair(NodesOf(pass)[n]) = <<NoIndex, NoIndex>>

\* The faces of an identity give triangle data: some vertex and some
\* triangle.
ProducesTriangles(d, id) ==
    /\ \E f \in 1..Len(d.tshapes[id].faces) :
          HasValue(d.tshapes[id].faces[f].tri)
              /\ ValueOf(d.tshapes[id].faces[f].tri).nodes # <<>>
    /\ \E f \in 1..Len(d.tshapes[id].faces) :
          HasValue(d.tshapes[id].faces[f].tri)
              /\ ValueOf(d.tshapes[id].faces[f].tri).triangles # <<>>

\* The occurrences in the tree under an identity, itself included.
RECURSIVE OccurrencesUnder(_, _)
RECURSIVE OccurrencesIn(_, _, _)
OccurrencesIn(d, children, i) ==
    IF i > Len(children) THEN 0
    ELSE OccurrencesUnder(d, children[i].tshape) + OccurrencesIn(d, children, i + 1)
OccurrencesUnder(d, id) ==
    1 + (IF d.tshapes[id].type \in {"COMPOUND", "COMPSOLID"}
         THEN OccurrencesIn(d, d.tshapes[id].children, 1) ELSE 0)

RECURSIVE OccurrencesOfRoots(_, _)
OccurrencesOfRoots(d, l) ==
    IF l > Len(d.labels) THEN 0
    ELSE (IF IsFreeShape(d, l)
          THEN OccurrencesUnder(d, ValueOf(d.labels[l].shape).tshape) ELSE 0)
         + OccurrencesOfRoots(d, l + 1)

\* The placement of frame n relative to its parent, as 16 floats.
RelativePlacement(n) ==
    MatrixArray(Multiplied(Inverted(pass.tc.frameLog[n].parentWorldTransform),
                           pass.tc.frameLog[n].shape.loc))

\* C6. Shared geometry, per-instance transform: in the returned model
\* there is one Mesh per occurrence of the tree; two Solid/Shell nodes
\* with triangles carry the same triGeometryIndex exactly when they are
\* instances of one identity; each node carries its own relative
\* transform; and the TriGeometry entries are as many as the identities
\* visited whose faces give triangle data.
C6_SharedGeometry ==
    pass.pc = "done" =>
        /\ Len(NodesOf(pass)) = OccurrencesOfRoots(doc, 1)
        /\ \A m, n \in SolidVisits :
              /\ IdentityOf(m) = IdentityOf(n)
                    => NodesOf(pass)[m].triGeometryIndex = NodesOf(pass)[n].triGeometryIndex
              /\ (NodesOf(pass)[m].triGeometryIndex >= 0
                    /\ NodesOf(pass)[m].triGeometryIndex = NodesOf(pass)[n].triGeometryIndex)
                    => IdentityOf(m) = IdentityOf(n)
        /\ \A n \in 1..Len(NodesOf(pass)) : NodesOf(pass)[n].transform = RelativePlacement(n)
        /\ Len(ValueOf(pass.result).tris)
              = Cardinality({id \in {IdentityOf(n) : n \in SolidVisits} :
                                ProducesTriangles(doc, id)})

\* Two instances of one identity under one parent, placed differently,
\* share one TriGeometry and differ in their transforms.
C6_Witness ==
    /\ pass.pc = "done"
    /\ \E m, n \in SolidVisits :
          /\ m # n /\ IdentityOf(m) = IdentityOf(n)
          /\ pass.tc.frameLog[m].parentMeshIndex = pass.tc.frameLog[n].parentMeshIndex
          /\ pass.tc.frameLog[m].shape.loc # pass.tc.frameLog[n].shape.loc
          /\ NodesOf(pass)[m].triGeometryIndex >= 0
          /\ NodesOf(pass)[m].triGeometryIndex = NodesOf(pass)[n].triGeometryIndex
          /\ NodesOf(pass)[m].transform # NodesOf(pass)[n].transform
    /\ Len(ValueOf(pass.result).tris) < Cardinality(SolidVisits)

\* The ids of a map are 0, 1, ..., size-1, each given once.
DenseIds(map) ==
    /\ {map[k].id : k \in DOMAIN map} = 0..(Cardinality(DOMAIN map) - 1)
    /\ \A j, k \in DOMAIN map : map[j].id = map[k].id => j = k

\* The indices met along the node list appear in first-seen order: each
\* is one met before or the count of those met before.
FirstSeenOrder(indices) ==
    \A n \in 1..Len(indices) :
        indices[n] # NoIndex =>
            LET before == {indices[m] : m \in 1..(n - 1)} \ {NoIndex}
            IN  indices[n] \in before \/ indices[n] = Cardinality(before)

\* Position id+1 of the vector holds the entry of the map with that id.
Compacted(map, vector) ==
    /\ Len(vector) = Cardinality(DOMAIN map)
    /\ \A k \in DOMAIN map : vector[map[k].id + 1] = map[k].geometry

CompactedMaterials(map, vector) ==
    /\ Len(vector) = Cardinality(DOMAIN map)
    /\ \A k \in DOMAIN map : vector[map[k].id + 1] = Some(map[k].material)

C7_DenseFirstSeen ==
    /\ DenseIds(pass.tc.triGeometryMap)
    /\ DenseIds(pass.tc.lineGeometryMap)
    /\ DenseIds(pass.tc.materialMap)
    /\ FirstSeenOrder([n \in 1..Len(NodesOf(pass)) |-> NodesOf(pass)[n].triGeometryIndex])
    /\ FirstSeenOrder([n \in 1..Len(NodesOf(pass)) |-> NodesOf(pass)[n].lineGeometryIndex])
    /\ FirstSeenOrder([n \in 1..Len(NodesOf(pass)) |-> NodesOf(pass)[n].materialIndex])

C7_AssemblyKeepsIds ==
    /\ (pass.pc = "labels" /\ pass'.pc = "clean") =>
          /\ Compacted(pass.tc.triGeometryMap, pass'.tris)
          /\ Compacted(pass.tc.lineGeometryMap, pass'.lines)
          /\ CompactedMaterials(pass.tc.materialMap, pass'.materials)
          /\ NodesOf(pass') = NodesOf(pass)
    /\ pass.pc = "clean" => /\ pass'.tris = pass.tris /\ pass'.lines = pass.lines
                            /\ pass'.materials = pass.materials
                            /\ NodesOf(pass') = NodesOf(pass)
    /\ pass.pc = "return" =>
          /\ ValueOf(pass'.result).tris = pass.tris
          /\ ValueOf(pass'.result).lines = pass.lines
          /\ ValueOf(pass'.result).materials = pass.materials
          /\ NodesOf(pass') = NodesOf(pass)

\* C7. Dense first-seen indices preserved by compaction: at every moment
\* of the pass the ids of the triangle geometries, of the line geometries
\* and of the materials are 0,1,2,... without gap or repeat, in the order
\* the nodes first met them; assembly puts the entry with id i at position
\* i of tris / lines / materials, and neither the vectors nor the nodes
\* change from there to the returned model.
C7_DenseIdsPreserved == []C7_DenseFirstSeen /\ [][C7_AssemblyKeepsIds]_vars

\* The returned model holds two triangle geometries, two line geometries
\* and two materials, and nodes that point at the second of each.
C7_Witness ==
    /\ pass.pc = "done"
    /\ Len(ValueOf(pass.result).tris) >= 2
    /\ Len(ValueOf(pass.result).lines) >= 2
    /\ Len(ValueOf(pass.result).materials) >= 2
    /\ \E n \in 1..Len(NodesOf(pass)) : NodesOf(pass)[n].triGeometryIndex = 1
    /\ \E n \in 1..Len(NodesOf(pass)) : NodesOf(pass)[n].lineGeometryIndex = 1
    /\ \E n \in 1..Len(NodesOf(pass)) : NodesOf(pass)[n].materialIndex = 1

\* An index is none or designates an entry of a vector of the given size.
ValidIndex(index, size) == index = NoIndex \/ (0 <= index /\ index < size)

\* C8. Index validity of MeshNodes: in the model returned for any
\* document, every node's triGeometryIndex, lineGeometryIndex and
\* materialIndex is none or less than the number of entries of tris, lines
\* and materials, and its parentMeshIndex is none or an index into the
\* node list.
C8_IndexValidity ==
    pass.pc = "done" =>
        \A n \in 1..Len(ValueOf(pass.result).meshes) :
            /\ ValidIndex(ValueOf(pass.result).meshes[n].triGeometryIndex,
                          Len(ValueOf(pass.result).tris))
            /\ ValidIndex(ValueOf(pass.result).meshes[n].lineGeometryIndex,
                          Len(ValueOf(pass.result).lines))
            /\ ValidIndex(ValueOf(pass.result).meshes[n].materialIndex,
                          Len(ValueOf(pass.result).materials))
            /\ ValidIndex(ValueOf(pass.result).meshes[n].parentMeshIndex,
                          Len(ValueOf(pass.result).meshes))

\* The returned model has a node with all four indices set and the last
\* entry of tris in use, a node without geometry and a node without
\* material.
C8_Witness ==
    /\ pass.pc = "done"
    /\ \E n \in 1..Len(NodesOf(pass)) :
          /\ NodesOf(pass)[n].triGeometryIndex = Len(ValueOf(pass.result).tris) - 1
          /\ NodesOf(pass)[n].lineGeometryIndex >= 0
          /\ NodesOf(pass)[n].materialIndex >= 0
          /\ NodesOf(pass)[n].parentMeshIndex >= 0
    /\ \E n \in 1..Len(NodesOf(pass)) :
          GeometryPair(NodesOf(pass)[n]) = <<NoIndex, NoIndex>>
    /\ \E n \in 1..Len(NodesOf(pass)) : NodesOf(pass)[n].materialIndex = NoIndex

\* The sizes of the buffers of a TriGeometry agree.
TriGeometryOK(g) ==
    /\ Len(g.positions) = Len(g.normals)
    /\ Len(g.positions) % 3 = 0
    /\ Len(g.indices) % 3 = 0
    /\ \A j \in 1..Len(g.indices) :
          0 <= g.indices[j] /\ g.indices[j] < Len(g.positions) \div 3

\* The indices of g, face by face: the triangles of face f are the next
\* 3 * NbTriangles indices and designate vertices of that face, which are
\* the NbNodes vertices that follow the vertexOffset vertices of the
\* earlier faces.
RECURSIVE FaceBlocks(_, _, _, _, _)
FaceBlocks(g, faces, f, vertexOffset, indexStart) ==
    IF f > Len(faces)
    THEN Len(g.positions) = 3 * vertexOffset /\ Len(g.indices) = indexStart
    ELSE IF ~HasValue(faces[f].tri)
    THEN FaceBlocks(g, faces, f + 1, vertexOffset, indexStart)
    ELSE /\ Len(g.indices) >= indexStart + 3 * Len(ValueOf(faces[f].tri).triangles)
         /\ \A j \in 1..(3 * Len(ValueOf(faces[f].tri).triangles)) :
               /\ vertexOffset <= g.indices[indexStart + j]
               /\ g.indices[indexStart + j]
                     < vertexOffset + Len(ValueOf(faces[f].tri).nodes)
         /\ FaceBlocks(g, faces, f + 1,
                       vertexOffset + Len(ValueOf(faces[f].tri).nodes),
                       indexStart + 3 * Len(ValueOf(faces[f].tri).triangles))

\* C9. TriGeometry invariant: every TriGeometry of the pass, in the map,
\* in the vector of compute() and in the returned model, has as many
\* normals as positions, a multiple of 3 indices, and every index less
\* than positions.size()/3; and the indices of each face of its shape are
\* offset by the number of vertices of the earlier faces.
C9_TriGeometryInvariant ==
    /\ \A k \in DOMAIN pass.tc.triGeometryMap :
          /\ TriGeometryOK(pass.tc.triGeometryMap[k].geometry)
          /\ FaceBlocks(pass.tc.triGeometryMap[k].geometry, doc.tshapes[k].faces, 1, 0, 0)
    /\ \A i \in 1..Len(pass.tris) : TriGeometryOK(pass.tris[i])
    /\ HasValue(pass.result) =>
          \A i \in 1..Len(ValueOf(pass.result).tris) :
              TriGeometryOK(ValueOf(pass.result).tris[i])

\* A TriGeometry of two faces with triangles: an index of the second face
\* is at or past the vertex count of the first.
C9_Witness ==
    \E k \in DOMAIN pass.tc.triGeometryMap :
        /\ Len(pass.tc.triGeometryMap[k].geometry.submeshIndices) >= 2
        /\ pass.tc.triGeometryMap[k].geometry.submeshIndices[1] > 0
        /\ \E j \in 1..Len(pass.tc.triGeometryMap[k].geometry.indices) :
              pass.tc.triGeometryMap[k].geometry.indices[j]
                  >= pass.tc.triGeometryMap[k].geometry.submeshIndices[1]

RECURSIVE SumSeq(_, _)
SumSeq(seq, i) == IF i > Len(seq) THEN 0 ELSE seq[i] + SumSeq(seq, i + 1)

\* The buffers of a LineGeometry hold whole segments: every submesh entry
\* is the 2 * (n - 1) endpoints of an edge of n >= 2 points.
LineGeometryOK(g) ==
    /\ Len(g.positions) % 6 = 0
    /\ Len(g.positions) = 3 * SumSeq(g.submeshIndices, 1)
    /\ \A i \in 1..Len(g.submeshIndices) :
          g.submeshIndices[i] >= 2 /\ g.submeshIndices[i] % 2 = 0

\* The points of an edge of a face: the nodes of its polygon on the
\* triangulation of the face when both exist, the samples of its curve
\* otherwise.
EdgePointCount(face, edge) ==
    IF HasValue(face.tri) /\ HasValue(edge.poly)
    THEN Len(ValueOf(edge.poly)) ELSE Len(edge.curve)

\* The point counts of the edges of the faces, each edge identity at its
\* first occurrence past those seen.
RECURSIVE EdgePointCounts(_, _, _, _)
EdgePointCounts(faces, f, e, seen) ==
    IF f > Len(faces) THEN <<>>
    ELSE IF e > Len(faces[f].edges) THEN EdgePointCounts(faces, f + 1, 1, seen)
    ELSE IF faces[f].edges[e].tshape \in seen THEN EdgePointCounts(faces, f, e + 1, seen)
    ELSE << EdgePointCount(faces[f], faces[f].edges[e]) >>
         \o EdgePointCounts(faces, f, e + 1, seen \cup {faces[f].edges[e].tshape})

\* n - 1 segments, that is 2 * (n - 1) endpoints, for each count n >= 2.
RECURSIVE ExpectedSubmeshes(_, _)
ExpectedSubmeshes(counts, i) ==
    IF i > Len(counts) THEN <<>>
    ELSE (IF counts[i] >= 2 THEN << 2 * (counts[i] - 1) >> ELSE <<>>)
         \o ExpectedSubmeshes(counts, i + 1)

\* The submesh entries of the line geometry stored for an identity, none
\* when nothing was stored.
StoredSubmeshes(id) ==
    IF id \in DOMAIN pass.tc.lineGeometryMap
    THEN pass.tc.lineGeometryMap[id].geometry.submeshIndices ELSE <<>>

\* C10. LineGeometry invariant: every LineGeometry of the pass, in the
\* map, in the vector of compute() and in the returned model, has a
\* multiple of 6 positions, 6 for each segment counted by its submesh
\* entries; and for the shape meshed first, each of its edges with n >= 2
\* points has added one submesh entry of n - 1 segments and each edge with
\* fewer points has added nothing, on the polygon path and on the curve
\* path alike.
C10_LineGeometryInvariant ==
    /\ \A k \in DOMAIN pass.tc.lineGeometryMap :
          LineGeometryOK(pass.tc.lineGeometryMap[k].geometry)
    /\ \A i \in 1..Len(pass.lines) : LineGeometryOK(pass.lines[i])
    /\ HasValue(pass.result) =>
          \A i \in 1..Len(ValueOf(pass.result).lines) :
              LineGeometryOK(ValueOf(pass.result).lines[i])
    /\ (pass.tc.meshLog # <<>> /\ pass.tc.meshLog[1] \in DOMAIN pass.tc.processedShapeMap) =>
          StoredSubmeshes(pass.tc.meshLog[1])
              = ExpectedSubmeshes(EdgePointCounts(doc.tshapes[pass.tc.meshLog[1]].faces,
                                                  1, 1, {}), 1)

\* The shape meshed first has an edge on the polygon path and an edge on
\* the curve path, an edge of 3 points or more and an edge of fewer than
\* 2, and its line geometry is stored.
C10_Witness ==
    /\ pass.tc.meshLog # <<>>
    /\ pass.tc.meshLog[1] \in DOMAIN pass.tc.lineGeometryMap
    /\ \E f, g \in 1..Len(doc.tshapes[pass.tc.meshLog[1]].faces) :
          /\ \E e \in 1..Len(doc.tshapes[pass.tc.meshLog[1]].faces[f].edges) :
                /\ HasValue(doc.tshapes[pass.tc.meshLog[1]].faces[f].tri)
                /\ HasValue(doc.tshapes[pass.tc.meshLog[1]].faces[f].edges[e].poly)
                /\ Len(ValueOf(doc.tshapes[pass.tc.meshLog[1]].faces[f].edges[e].poly)) >= 3
          /\ \E e \in 1..Len(doc.tshapes[pass.tc.meshLog[1]].faces[g].edges) :
                /\ ~HasValue(doc.tshapes[pass.tc.meshLog[1]].faces[g].edges[e].poly)
                /\ Len(doc.tshapes[pass.tc.meshLog[1]].faces[g].edges[e].curve) < 2
    /\ Len(EdgePointCounts(doc.tshapes[pass.tc.meshLog[1]].faces, 1, 1, {}))
          > Len(StoredSubmeshes(pass.tc.meshLog[1]))

\* C11. MeshNode kind invariant: at every moment of the pass and in the
\* returned model, a Compound or Compsolid node has neither a triangle nor
\* a line geometry index, an Edge or Unknown node has no triangle geometry
\* index, a node with a triangle geometry index is a Solid or a Shell, and
\* the node a parentMeshIndex designates is a Compound or a Compsolid.
C11_KindInvariant ==
    \A n \in 1..Len(NodesOf(pass)) :
        /\ NodesOf(pass)[n].shapeType \in {"Compound", "Compsolid"}
              => GeometryPair(NodesOf(pass)[n]) = <<NoIndex, NoIndex>>
        /\ NodesOf(pass)[n].shapeType \in {"Edge", "Unknown"}
              => NodesOf(pass)[n].triGeometryIndex = NoIndex
        /\ NodesOf(pass)[n].triGeometryIndex # NoIndex
              => NodesOf(pass)[n].shapeType \in {"Solid", "Shell"}
        /\ NodesOf(pass)[n].parentMeshIndex # NoIndex
              => /\ NodesOf(pass)[n].parentMeshIndex + 1 \in 1..Len(NodesOf(pass))
                 /\ NodesOf(pass)[NodesOf(pass)[n].parentMeshIndex + 1].shapeType
                       \in {"Compound", "Compsolid"}

\* The returned model has a Solid with triangles under a Compsolid, and an
\* Edge under a Compound.
C11_Witness ==
    /\ pass.pc = "done"
    /\ \E n \in 1..Len(NodesOf(pass)) :
          /\ NodesOf(pass)[n].shapeType = "Solid"
          /\ NodesOf(pass)[n].triGeometryIndex >= 0
          /\ NodesOf(pass)[n].parentMeshIndex >= 0
          /\ NodesOf(pass)[NodesOf(pass)[n].parentMeshIndex + 1].shapeType = "Compsolid"
    /\ \E n \in 1..Len(NodesOf(pass)) :
          /\ NodesOf(pass)[n].shapeType = "Edge"
          /\ NodesOf(pass)[n].parentMeshIndex >= 0
          /\ NodesOf(pass)[NodesOf(pass)[n].parentMeshIndex + 1].shapeType = "Compound"

----------------------------------------------------------------------------
(* Properties of the copies and moves of ModelContext                      *)

\* C12. Copy/move excluded from an in-flight computation: every access a
\* copy or move makes to the handles or to the cached model of an object
\* is made while the copying thread holds the triangulationMutex of that
\* object, and none is made while a computeTriangulation() on that object
\* is between taking and releasing the mutex.
C12_CopyMoveExcluded ==
    \A x \in copyAccess : x.held /\ ~x.running

\* A move took the handles of an object while computeTriangulation() was
\* running on it, and the pass then ran into the null handles.
C12_Witness ==
    \E o \in Objects :
        /\ pcCompute[o] = "crashed"
        /\ \E x \in copyAccess : x.object = o /\ x.member = "handles" /\ x.running

----------------------------------------------------------------------------
(* Properties of the attributes of the nodes                               *)

\* The label Search finds for the shape of frame n, None when it finds
\* none.
TreeLabelOf(n) == Search(doc, pass.tc.frameLog[n].shape)

\* The non-reference label reached from the tree label of frame n.
ResolvedLabelOf(n) ==
    IF HasValue(TreeLabelOf(n))
    THEN resolveReferredShapeLabel(doc, ValueOf(TreeLabelOf(n)))
    ELSE None

\* The resolved label of frame n carries a colour.
IsColoured(n) ==
    HasValue(ResolvedLabelOf(n)) /\ HasValue(getLabelColor(doc, ValueOf(ResolvedLabelOf(n))))

\* The materials of the pass: in the map until assembly, in the vector
\* of compute() until it returns, in the model afterwards.
MaterialCount(p) ==
    IF HasValue(p.result) THEN Len(ValueOf(p.result).materials)
    ELSE IF p.pc \in {"clean", "return"} THEN Len(p.materials)
    ELSE Cardinality(DOMAIN p.tc.materialMap)

\* C13. Material interning is keyed by the resolved label: nodes with the
\* same coloured resolved label have the same materialIndex, nodes with
\* different coloured resolved labels have different ones whatever the
\* RGB values, a node whose resolved label has no colour has materialIndex
\* none, and the materials are as many as the coloured resolved labels of
\* the nodes.
C13_MaterialByResolvedLabel ==
    /\ \A n \in 1..Len(NodesOf(pass)) :
          IsColoured(n) <=> NodesOf(pass)[n].materialIndex # NoIndex
    /\ \A m, n \in 1..Len(NodesOf(pass)) :
          (IsColoured(m) /\ IsColoured(n)) =>
              ((ResolvedLabelOf(m) = ResolvedLabelOf(n))
                  <=> (NodesOf(pass)[m].materialIndex = NodesOf(pass)[n].materialIndex))
    /\ MaterialCount(pass)
          = Cardinality({ResolvedLabelOf(n) : n \in {k \in 1..Len(NodesOf(pass)) : IsColoured(k)}})

\* The returned model has two nodes that share a resolved label and a
\* material, two nodes with different resolved labels of the same RGB and
\* different materials, and a node without colour.
C13_Witness ==
    /\ pass.pc = "done"
    /\ \E m, n \in 1..Len(NodesOf(pass)) :
          /\ m # n /\ IsColoured(m) /\ ResolvedLabelOf(m) = ResolvedLabelOf(n)
          /\ TreeLabelOf(m) # TreeLabelOf(n)
          /\ NodesOf(pass)[m].materialIndex = NodesOf(pass)[n].materialIndex
    /\ \E m, n \in 1..Len(NodesOf(pass)) :
          /\ IsColoured(m) /\ IsColoured(n) /\ ResolvedLabelOf(m) # ResolvedLabelOf(n)
          /\ getLabelColor(doc, ValueOf(ResolvedLabelOf(m)))
                = getLabelColor(doc, ValueOf(ResolvedLabelOf(n)))
          /\ NodesOf(pass)[m].materialIndex # NodesOf(pass)[n].materialIndex
    /\ \E n \in 1..Len(NodesOf(pass)) : NodesOf(pass)[n].materialIndex = NoIndex

\* The tree label of frame n is a reference.
IsReferring(n) ==
    HasValue(TreeLabelOf(n)) /\ IsReference(doc, ValueOf(TreeLabelOf(n)))

\* The colour stored for node n of the returned model, None without one.
StoredColour(n) ==
    IF ValueOf(pass.result).meshes[n].materialIndex = NoIndex THEN None
    ELSE ValueOf(pass.result).materials[ValueOf(pass.result).meshes[n].materialIndex + 1]

\* C14. The resolved label is the authority for name and colour: in the
\* returned model a node whose tree label is a reference carries the name
\* and the colour of the non-reference label reached through the
\* references, not those of the referring label.
C14_ResolvedLabelAuthority ==
    pass.pc = "done" =>
        \A n \in 1..Len(ValueOf(pass.result).meshes) :
            IsReferring(n) =>
                /\ ValueOf(pass.result).meshes[n].name
                      = getLabelName(doc, ValueOf(ResolvedLabelOf(n)))
                /\ StoredColour(n) = getLabelColor(doc, ValueOf(ResolvedLabelOf(n)))

\* The returned model has a node whose tree label refers, through two
\* hops, to a label of another name and another colour; the node carries
\* the colour of the resolved label and the name of the referring one.
C14_Witness ==
    /\ pass.pc = "done"
    /\ \E n \in 1..Len(ValueOf(pass.result).meshes) :
          /\ IsReferring(n)
          /\ IsReference(doc, doc.labels[ValueOf(TreeLabelOf(n))].ref)
          /\ StoredColour(n) = getLabelColor(doc, ValueOf(ResolvedLabelOf(n)))
          /\ StoredColour(n) # getLabelColor(doc, ValueOf(TreeLabelOf(n)))
          /\ ValueOf(pass.result).meshes[n].name
                = getLabelName(doc, ValueOf(TreeLabelOf(n)))
          /\ ValueOf(pass.result).meshes[n].name
                # getLabelName(doc, ValueOf(ResolvedLabelOf(n)))

----------------------------------------------------------------------------
(* Properties of reference resolution                                      *)

\* The reference hops from label l to the first non-reference label on a
\* chain that has one within fuel hops; None otherwise.
RECURSIVE ChainLength(_, _, _)
ChainLength(d, l, fuel) ==
    IF ~IsReference(d, l) THEN Some(0)
    ELSE IF fuel = 0 THEN None
    ELSE LET rest == ChainLength(d, d.labels[l].ref, fuel - 1)
         IN  IF HasValue(rest) THEN Some(ValueOf(rest) + 1) ELSE None

\* C15. Reference resolution terminates for every starting label: a call
\* that returns has followed a finite acyclic chain, returns its first
\* non-reference label and has made as many hops as the chain is long; and
\* every call, on a cyclic chain too, comes to an end.
C15_ResolutionTerminates ==
    /\ [](resolve.pc = "returned" =>
            /\ ~IsReference(doc, resolve.resolvedLabel)
            /\ Some(resolve.resolvedLabel) = resolveReferredShapeLabel(doc, resolve.label)
            /\ Some(Cardinality(resolve.visited) - 1)
                  = ChainLength(doc, resolve.label, Len(doc.labels)))
    /\ (resolve.pc = "loop") ~> (resolve.pc # "loop")

\* The loop stands at a reference whose referred label it has been at
\* before: it has run around a cycle.
C15_Witness ==
    /\ resolve.pc = "loop"
    /\ IsReference(doc, resolve.resolvedLabel)
    /\ Cardinality(resolve.visited) > 1
    /\ doc.labels[resolve.resolvedLabel].ref = resolve.label

----------------------------------------------------------------------------
(* Properties of the node list                                             *)

\* The labels of d that hold a shape no assembly uses: its roots.
FreeLabels(d) ==
    {l \in 1..Len(d.labels) : HasValue(d.labels[l].shape) /\ d.labels[l].free}

\* The resolved label of a shape carries a colour.
ColouredShape(d, shape) ==
    /\ HasValue(Search(d, shape))
    /\ HasValue(getLabelColor(d, ValueOf(resolveReferredShapeLabel(d, ValueOf(Search(d, shape))))))

\* The resolved label of a shape that has one.
ResolvedLabelOfShape(d, shape) ==
    ValueOf(resolveReferredShapeLabel(d, ValueOf(Search(d, shape))))

\* d has a single root, an uncoloured Compound, whose children are Solids
\* of pairwise distinct identity, each with a non-empty triangulation and a
\* coloured label of its own.
OneLevelAssembly(d, root) ==
    /\ FreeLabels(d) = {root}
    /\ ShapeType(d, ValueOf(d.labels[root].shape)) = "COMPOUND"
    /\ ~ColouredShape(d, ValueOf(d.labels[root].shape))
    /\ Len(Children(d, ValueOf(d.labels[root].shape))) >= 1
    /\ \A i \in 1..Len(Children(d, ValueOf(d.labels[root].shape))) :
          /\ ShapeType(d, Children(d, ValueOf(d.labels[root].shape))[i]) = "SOLID"
          /\ ProducesTriangles(d, Children(d, ValueOf(d.labels[root].shape))[i].tshape)
          /\ ColouredShape(d, Children(d, ValueOf(d.labels[root].shape))[i])
    /\ \A i, j \in 1..Len(Children(d, ValueOf(d.labels[root].shape))) :
          i # j =>
              /\ Children(d, ValueOf(d.labels[root].shape))[i].tshape
                    # Children(d, ValueOf(d.labels[root].shape))[j].tshape
              /\ ResolvedLabelOfShape(d, Children(d, ValueOf(d.labels[root].shape))[i])
                    # ResolvedLabelOfShape(d, Children(d, ValueOf(d.labels[root].shape))[j])

\* The number of children of the root of a one-level assembly.
ChildCount(d, root) == Len(d.tshapes[ValueOf(d.labels[root].shape).tshape].children)

\* C16. End-to-end flattening of one assembly level: for a document with a
\* single uncoloured root Compound of k >= 1 child Solids of pairwise
\* distinct identity, each with a non-empty triangulation and its own
\* coloured label, the returned model has k+1 nodes, node 0 is the Compound
\* without parent, every other node has parent 0, and there are exactly k
\* TriGeometry entries and k Materials.
C16_OneLevelFlattening ==
    pass.pc = "done" =>
        \A root \in 1..Len(doc.labels) :
            OneLevelAssembly(doc, root) =>
                /\ Len(ValueOf(pass.result).meshes) = ChildCount(doc, root) + 1
                /\ ValueOf(pass.result).meshes[1].shapeType = "Compound"
                /\ ValueOf(pass.result).meshes[1].parentMeshIndex = NoIndex
                /\ \A n \in 2..Len(ValueOf(pass.result).meshes) :
                      /\ ValueOf(pass.result).meshes[n].parentMeshIndex = 0
                      /\ ValueOf(pass.result).meshes[n].shapeType = "Solid"
                /\ Len(ValueOf(pass.result).tris) = ChildCount(doc, root)
                /\ Len(ValueOf(pass.result).materials) = ChildCount(doc, root)

\* The model of a one-level assembly of two Solids has been returned.
C16_Witness ==
    /\ pass.pc = "done"
    /\ \E root \in 1..Len(doc.labels) :
          OneLevelAssembly(doc, root) /\ ChildCount(doc, root) = 2
    /\ Len(ValueOf(pass.result).meshes) = 3
    /\ Len(ValueOf(pass.result).tris) = 2
    /\ Len(ValueOf(pass.result).materials) = 2

\* The nodes made from root frames, in the order of the node list.
RootNodes == {n \in 1..Len(NodesOf(pass)) : NodesOf(pass)[n].parentMeshIndex = NoIndex}

\* The k-th element of a set of numbers.
Ranked(S, k) == CHOOSE x \in S : Cardinality({y \in S : y <= x}) = k

\* Node n is the node of an occurrence that the shape of node parent holds.
ContainedIn(n, parent) ==
    /\ ShapeType(doc, pass.tc.frameLog[parent].shape) \in {"COMPOUND", "COMPSOLID"}
    /\ \E i \in 1..Len(Children(doc, pass.tc.frameLog[parent].shape)) :
          Children(doc, pass.tc.frameLog[parent].shape)[i] = pass.tc.frameLog[n].shape

\* C17. Parent back-reference through the pre-reserved index: the
\* meshIndex reserved when a frame is popped is the position at which its
\* Mesh is appended, across all roots; the parentMeshIndex of a child frame
\* or node is the position of the node of the Compound or Compsolid that
\* holds it and is smaller than the child's own position; and the nodes
\* without parent are exactly the nodes of the free shapes, in the order of
\* their labels.
C17_ParentBackReference ==
    /\ Len(pass.tc.indexLog) = Len(NodesOf(pass))
    /\ \A n \in 1..Len(NodesOf(pass)) :
          /\ pass.tc.indexLog[n] = n - 1
          /\ NodesOf(pass)[n].parentMeshIndex # NoIndex =>
                /\ 0 <= NodesOf(pass)[n].parentMeshIndex
                /\ NodesOf(pass)[n].parentMeshIndex < n - 1
                /\ ContainedIn(n, NodesOf(pass)[n].parentMeshIndex + 1)
    /\ \A i \in 1..Len(pass.stack) :
          pass.stack[i].parentMeshIndex # NoIndex =>
              /\ pass.stack[i].parentMeshIndex + 1 \in 1..Len(NodesOf(pass))
              /\ \E j \in 1..Len(Children(doc,
                        pass.tc.frameLog[pass.stack[i].parentMeshIndex + 1].shape)) :
                    Children(doc, pass.tc.frameLog[pass.stack[i].parentMeshIndex + 1].shape)[j]
                        = pass.stack[i].shape
    /\ Cardinality(RootNodes) <= Cardinality(FreeLabels(doc))
    /\ pass.pc = "done" => Cardinality(RootNodes) = Cardinality(FreeLabels(doc))
    /\ \A k \in 1..Cardinality(RootNodes) :
          pass.tc.frameLog[Ranked(RootNodes, k)].shape
              = ValueOf(doc.labels[Ranked(FreeLabels(doc), k)].shape)

\* The returned model has two roots, the second one behind the subtree of
\* the first, and a node two levels below the second root whose parent is
\* neither node 0 nor the node before it.
C17_Witness ==
    /\ pass.pc = "done"
    /\ Cardinality(RootNodes) = 2
    /\ \E n \in 1..Len(NodesOf(pass)) :
          /\ NodesOf(pass)[n].parentMeshIndex > 0
          /\ NodesOf(pass)[n].parentMeshIndex < n - 2
          /\ NodesOf(pass)[NodesOf(pass)[n].parentMeshIndex + 1].parentMeshIndex
                >= Ranked(RootNodes, 2) - 1

\* The nodes on the parent chain of node n.
RECURSIVE AncestorsOf(_)
AncestorsOf(n) ==
    IF NodesOf(pass)[n].parentMeshIndex = NoIndex THEN {}
    ELSE {NodesOf(pass)[n].parentMeshIndex + 1}
            \cup AncestorsOf(NodesOf(pass)[n].parentMeshIndex + 1)

DescendantsOf(n) == {m \in 1..Len(NodesOf(pass)) : n \in AncestorsOf(m)}

ChildNodesOf(n) == {m \in 1..Len(NodesOf(pass)) : NodesOf(pass)[m].parentMeshIndex = n - 1}

\* What the child iterator of the shape of node n yields.
IteratedChildren(n) ==
    IF ShapeType(doc, pass.tc.frameLog[n].shape) \in {"COMPOUND", "COMPSOLID"}
    THEN Children(doc, pass.tc.frameLog[n].shape)
    ELSE <<>>

\* The returned node list is a pre-order flattening with reversed siblings.
PreOrderReversed ==
    /\ Len(NodesOf(pass)) = OccurrencesOfRoots(doc, 1)
    /\ \A n \in 1..Len(NodesOf(pass)) :
          /\ DescendantsOf(n) = (n + 1)..(n + Cardinality(DescendantsOf(n)))
          /\ Cardinality(ChildNodesOf(n)) = Len(IteratedChildren(n))
          /\ \A j \in 1..Len(IteratedChildren(n)) :
                pass.tc.frameLog[Ranked(ChildNodesOf(n), j)].shape
                    = IteratedChildren(n)[Len(IteratedChildren(n)) + 1 - j]

\* The steps the pass has left at most: two per label not yet passed, one
\* per occurrence of the tree without node, and the steps after the loop.
StepsLeft(p) ==
    2 * (Len(doc.labels) + 1 - p.labelIt) - (IF p.pc = "flatten" THEN 1 ELSE 0)
        + (OccurrencesOfRoots(doc, 1) - Len(NodesOf(p)))
        + (CASE p.pc \in {"labels", "flatten"} -> 3
             [] p.pc = "clean" -> 2
             [] p.pc = "return" -> 1
             [] OTHER -> 0)

\* C18. Node order is a pre-order flattening with reversed siblings: the
\* traversal terminates (it is never stuck before it has returned, and
\* every step brings it nearer to the end by a bounded count); it has then
\* appended one node per shape occurrence reached through
\* Compound/Compsolid children; each node is followed immediately by the
\* contiguous block of all its descendants; and the children of one
\* Compound appear in the reverse of the order in which the child iterator
\* yields them.
C18_PreOrderReversedSiblings ==
    /\ [](pass.pc = "done" => PreOrderReversed)
    /\ [](StepsLeft(pass) >= 0 /\ (pass.pc # "done" => CanStep(doc, pass)))
    /\ [][StepsLeft(pass') < StepsLeft(pass)]_vars

\* The returned model has a Compound with two different children, the
\* first of which is a Compound with descendants of its own.
C18_Witness ==
    /\ pass.pc = "done"
    /\ \E n \in 1..Len(NodesOf(pass)) :
          /\ Len(IteratedChildren(n)) = 2
          /\ IteratedChildren(n)[1] # IteratedChildren(n)[2]
          /\ Len(Children(doc, IteratedChildren(n)[1])) >= 2
          /\ ShapeType(doc, IteratedChildren(n)[1]) = "COMPOUND"
          /\ Cardinality(DescendantsOf(n)) >= 4

----------------------------------------------------------------------------
(* Properties of the transforms                                            *)

\* The transformation a stored matrix stands for.
TrsfOfMatrix(m) == Trsf(m[0], m[12])

\* The world transform of the shape node n was made from.
WorldOf(n) == pass.tc.frameLog[n].shape.loc

\* The world transform of the parent of node n, the identity for a root.
ParentWorldOf(n) ==
    IF NodesOf(pass)[n].parentMeshIndex = NoIndex THEN IdentityTrsf
    ELSE WorldOf(NodesOf(pass)[n].parentMeshIndex + 1)

\* The stored transforms composed along the path from the root to node n.
RECURSIVE ComposedAlongPath(_)
ComposedAlongPath(n) ==
    IF NodesOf(pass)[n].parentMeshIndex = NoIndex
    THEN TrsfOfMatrix(NodesOf(pass)[n].transform)
    ELSE Multiplied(ComposedAlongPath(NodesOf(pass)[n].parentMeshIndex + 1),
                    TrsfOfMatrix(NodesOf(pass)[n].transform))

\* C19. Relative transform composition: the transform stored on a node is
\* inverse(parent world) composed with the node's own world transform, the
\* parent world carried in the frame being the identity for a root and the
\* world transform of the containing Compound otherwise; the stored
\* transforms composed along the path from the root give the node's world
\* transform at every depth.
C19_RelativeTransformComposition ==
    \A n \in 1..Len(NodesOf(pass)) :
        /\ pass.tc.frameLog[n].parentWorldTransform = ParentWorldOf(n)
        /\ NodesOf(pass)[n].transform
              = MatrixArray(Multiplied(Inverted(ParentWorldOf(n)), WorldOf(n)))
        /\ ComposedAlongPath(n) = WorldOf(n)

\* The returned model has a node at depth two whose parent and grandparent
\* are both displaced, and whose stored transform differs from its world
\* transform and from the parent's.
C19_Witness ==
    /\ pass.pc = "done"
    /\ \E n \in 1..Len(NodesOf(pass)) :
          /\ NodesOf(pass)[n].parentMeshIndex # NoIndex
          /\ NodesOf(pass)[NodesOf(pass)[n].parentMeshIndex + 1].parentMeshIndex # NoIndex
          /\ ParentWorldOf(n) # IdentityTrsf
          /\ Inverted(ParentWorldOf(n)) # ParentWorldOf(n)
          /\ TrsfOfMatrix(NodesOf(pass)[n].transform) # WorldOf(n)
          /\ TrsfOfMatrix(NodesOf(pass)[n].transform) # IdentityTrsf

----------------------------------------------------------------------------
(* Properties of the triangle winding                                      *)

\* The index triples of the triangles of one face from triangle i on, the
\* second and third index swapped when swap holds.
RECURSIVE WoundTriples(_, _, _, _)
WoundTriples(triangles, i, vertexOffset, swap) ==
    IF i > Len(triangles) THEN <<>>
    ELSE (IF swap
          THEN << triangles[i][1] - 1 + vertexOffset, triangles[i][3] - 1 + vertexOffset,
                  triangles[i][2] - 1 + vertexOffset >>
          ELSE << triangles[i][1] - 1 + vertexOffset, triangles[i][2] - 1 + vertexOffset,
                  triangles[i][3] - 1 + vertexOffset >>)
         \o WoundTriples(triangles, i + 1, vertexOffset, swap)

\* The indices of the faces from face f on, the winding flipped on the
\* reversed faces and kept on the others.
RECURSIVE FlippedOnReversed(_, _, _)
FlippedOnReversed(faces, f, vertexOffset) ==
    IF f > Len(faces) THEN <<>>
    ELSE IF ~HasValue(faces[f].tri) THEN FlippedOnReversed(faces, f + 1, vertexOffset)
    ELSE WoundTriples(ValueOf(faces[f].tri).triangles, 1, vertexOffset,
                      faces[f].orientation = "REVERSED")
         \o FlippedOnReversed(faces, f + 1,
                              vertexOffset + Len(ValueOf(faces[f].tri).nodes))

\* C20. Winding flip on reversed faces: for every triangle (n1, n2, n3) of
\* the triangulation of a face, the indices emitted are (n1, n3, n2) plus
\* the vertex offset when the face is reversed and (n1, n2, n3) plus the
\* vertex offset when it is not.
C20_WindingFlipOnReversed ==
    \A k \in DOMAIN pass.tc.triGeometryMap :
        pass.tc.triGeometryMap[k].geometry.indices
            = FlippedOnReversed(doc.tshapes[k].faces, 1, 0)

\* A TriGeometry whose first face is reversed and whose second is not: the
\* triangle of the first is emitted as delivered, that of the second with
\* its second and third index swapped.
C20_Witness ==
    \E k \in DOMAIN pass.tc.triGeometryMap :
        /\ Len(doc.tshapes[k].faces) = 2
        /\ doc.tshapes[k].faces[1].orientation = "REVERSED"
        /\ doc.tshapes[k].faces[2].orientation = "FORWARD"
        /\ doc.tshapes[k].faces[1].tri = Some(Tri1)
        /\ doc.tshapes[k].faces[2].tri = Some(Tri1)
        /\ pass.tc.triGeometryMap[k].geometry.indices = <<0, 1, 2, 3, 5, 4>>

----------------------------------------------------------------------------
(* Properties of the orientation correction                                *)

\* The normals of a face are to be negated: it is reversed or its
\* placement in the shape mirrors, not both.
NegationDue(face) ==
    (face.orientation = "REVERSED") # (Determinant(face.loc) < 0)

\* The normal floats of a face, all negated or none.
NormalFloats(face, negated) ==
    PushAll([i \in 1..Len(ValueOf(face.tri).normals) |->
                TransformedDir(IF negated THEN Reversed(ValueOf(face.tri).normals[i])
                               ELSE ValueOf(face.tri).normals[i], face.loc)],
            1, Len(ValueOf(face.tri).normals))

\* Face by face: the normals of face f are negated together exactly when
\* NegationDue, and the triangles of a reversed face that does not mirror
\* keep the index order of the tessellator.
RECURSIVE OneCorrection(_, _, _, _, _)
OneCorrection(g, faces, f, vertexOffset, indexStart) ==
    IF f > Len(faces) THEN TRUE
    ELSE IF ~HasValue(faces[f].tri)
    THEN OneCorrection(g, faces, f + 1, vertexOffset, indexStart)
    ELSE /\ SubSeq(g.normals, 3 * vertexOffset + 1,
                   3 * (vertexOffset + Len(ValueOf(faces[f].tri).nodes)))
               = NormalFloats(faces[f], NegationDue(faces[f]))
         /\ (faces[f].orientation = "REVERSED" /\ Determinant(faces[f].loc) >= 0) =>
               SubSeq(g.indices, indexStart + 1,
                      indexStart + 3 * Len(ValueOf(faces[f].tri).triangles))
                   = WoundTriples(ValueOf(faces[f].tri).triangles, 1, vertexOffset, FALSE)
         /\ OneCorrection(g, faces, f + 1,
                          vertexOffset + Len(ValueOf(faces[f].tri).nodes),
                          indexStart + 3 * Len(ValueOf(faces[f].tri).triangles))

\* C21. Exactly one orientation correction: the normals of a face are
\* negated for all its vertices together exactly when (the face is
\* reversed) XOR (the relative transform has a negative determinant); and
\* for a reversed face under a non-mirroring transform the normals are
\* negated and the triangle index order is left as the tessellator
\* delivered it: one correction, never both and never neither.
C21_OneOrientationCorrection ==
    \A k \in DOMAIN pass.tc.triGeometryMap :
        OneCorrection(pass.tc.triGeometryMap[k].geometry, doc.tshapes[k].faces, 1, 0, 0)

\* A TriGeometry of two reversed faces with triangles: the first does not
\* mirror, its normals are negated and its triangle is stored as
\* delivered; the second mirrors and its normals are not negated.
C21_Witness ==
    \E k \in DOMAIN pass.tc.triGeometryMap :
        /\ Len(doc.tshapes[k].faces) = 2
        /\ doc.tshapes[k].faces[1] = Face("REVERSED", IdentityTrsf, Some(Tri1), <<>>)
        /\ doc.tshapes[k].faces[2] = Face("REVERSED", Mirror, Some(Tri1), <<>>)
        /\ SubSeq(pass.tc.triGeometryMap[k].geometry.normals, 1, 3) = <<-1, 0, -1>>
        /\ SubSeq(pass.tc.triGeometryMap[k].geometry.indices, 1, 3) = <<0, 1, 2>>
        /\ SubSeq(pass.tc.triGeometryMap[k].geometry.normals, 10, 12) = <<-1, 0, 1>>

----------------------------------------------------------------------------
(* Properties of the line geometry of shared edges                         *)

\* The submesh entries the edges of an identity give when each edge
\* identity counts once within the shape, at its first occurrence.
SubmeshesPerShape(d, id) ==
    ExpectedSubmeshes(EdgePointCounts(d.tshapes[id].faces, 1, 1, {}), 1)

\* C22. Visited-edge tracking is scoped to one shape: for every Solid or
\* Shell tessellated, each edge identity of the shape contributes its
\* segments once to the LineGeometry of that shape, whether or not a shape
\* tessellated earlier holds the same edge identity, so in either order of
\* tessellation.
C22_EdgeTrackingPerShape ==
    \A k \in DOMAIN pass.tc.processedShapeMap :
        StoredSubmeshes(k) = SubmeshesPerShape(doc, k)

\* S1 and S2, which share edge e1, are both tessellated, S1 first: the
\* LineGeometry of S1 has the segments of all its edges, that of S2 has
\* those of e4 only.
C22_Witness ==
    /\ {"S1", "S2"} \subseteq DOMAIN pass.tc.processedShapeMap
    /\ pass.tc.meshLog[1] = "S1"
    /\ StoredSubmeshes("S1") = SubmeshesPerShape(doc, "S1")
    /\ SubmeshesPerShape(doc, "S2") = <<2, 4>>
    /\ StoredSubmeshes("S2") = <<4>>

----------------------------------------------------------------------------
(* Properties of empty geometry                                            *)

\* The TriGeometry and LineGeometry entries of the pass: in the maps until
\* assembly, in the vectors of compute() until it returns, in the model
\* afterwards.
TriCount(p) ==
    IF HasValue(p.result) THEN Len(ValueOf(p.result).tris)
    ELSE IF p.pc \in {"clean", "return"} THEN Len(p.tris)
    ELSE Cardinality(DOMAIN p.tc.triGeometryMap)

LineCount(p) ==
    IF HasValue(p.result) THEN Len(ValueOf(p.result).lines)
    ELSE IF p.pc \in {"clean", "return"} THEN Len(p.lines)
    ELSE Cardinality(DOMAIN p.tc.lineGeometryMap)

\* The runs of the face loop that ended with triangle data, with line data.
WithTriangles ==
    {i \in 1..Len(pass.tc.shapeLog) :
        pass.tc.shapeLog[i].triPositions > 0 /\ pass.tc.shapeLog[i].triIndices > 0}

WithLines ==
    {i \in 1..Len(pass.tc.shapeLog) : pass.tc.shapeLog[i].linePositions > 0}

\* C23. Empty geometry is discarded, not stored: a shape whose triangle
\* position buffer or triangle index buffer is empty gets triGeometryIndex
\* none, adds no TriGeometry entry and consumes no triangle id; a shape
\* whose line position buffer is empty gets lineGeometryIndex none and adds
\* no LineGeometry entry; the two decisions are independent; the node is
\* still emitted; and the pass goes on to its end.
C23_EmptyGeometryDiscarded ==
    /\ \A i \in 1..Len(pass.tc.shapeLog) :
          /\ \E n \in SolidVisits : IdentityOf(n) = pass.tc.shapeLog[i].key
          /\ \A n \in SolidVisits :
                IdentityOf(n) = pass.tc.shapeLog[i].key =>
                    /\ (NodesOf(pass)[n].triGeometryIndex = NoIndex) <=> (i \notin WithTriangles)
                    /\ (NodesOf(pass)[n].lineGeometryIndex = NoIndex) <=> (i \notin WithLines)
    /\ TriCount(pass) = Cardinality(WithTriangles)
    /\ LineCount(pass) = Cardinality(WithLines)
    /\ {NodesOf(pass)[n].triGeometryIndex : n \in 1..Len(NodesOf(pass))} \ {NoIndex}
          = 0..(TriCount(pass) - 1)
    /\ {NodesOf(pass)[n].lineGeometryIndex : n \in 1..Len(NodesOf(pass))} \ {NoIndex}
          = 0..(LineCount(pass) - 1)
    /\ pass.pc # "done" => CanStep(doc, pass)

\* The returned model of a pass in which one shape ended with vertices but
\* no triangle and with lines, one with triangles and no line, one with
\* nothing, and a later one with both: the later one has triangle id 1.
C23_Witness ==
    /\ pass.pc = "done"
    /\ \E i \in 1..Len(pass.tc.shapeLog) :
          /\ pass.tc.shapeLog[i].triPositions > 0 /\ pass.tc.shapeLog[i].triIndices = 0
    /\ \E i \in WithLines : i \notin WithTriangles
    /\ \E i \in WithTriangles : i \notin WithLines
    /\ \E i \in 1..Len(pass.tc.shapeLog) : i \notin WithTriangles \cup WithLines
    /\ \E i \in WithTriangles \cap WithLines : \E j \in 1..(i - 1) : j \notin WithTriangles

----------------------------------------------------------------------------
(* Properties of the assembly of the model                                 *)

\* The maps have been drained: compute() is past line 108.
Drained(p) == p.pc \in {"clean", "return", "done"}

\* The caches have been released: compute() is past line 117.
Released(p) == p.pc \in {"return", "done"}

\* The node of the root shape above node n.
RECURSIVE RootOf(_)
RootOf(n) ==
    IF NodesOf(pass)[n].parentMeshIndex = NoIndex THEN n
    ELSE RootOf(NodesOf(pass)[n].parentMeshIndex + 1)

\* Every free root shape has been flattened and nothing is left to drain.
AfterAllRoots ==
    /\ pass.labelIt > Len(doc.labels)
    /\ pass.stack = <<>>
    /\ Len(NodesOf(pass)) = OccurrencesOfRoots(doc, 1)
    /\ Cardinality(RootNodes) = Cardinality(FreeLabels(doc))
    /\ pass.tc.triGeometryMap = <<>> /\ pass.tc.lineGeometryMap = <<>>
    /\ pass.tc.materialMap = <<>> /\ pass.tc.processedShapeMap = <<>>

\* One tessellation and one geometry pair for an identity, whatever the
\* roots it occurs under.
SharedByAllRoots ==
    /\ \A i, j \in 1..Len(pass.tc.meshLog) :
          pass.tc.meshLog[i] = pass.tc.meshLog[j] => i = j
    /\ \A m, n \in SolidVisits :
          IdentityOf(m) = IdentityOf(n)
              => GeometryPair(NodesOf(pass)[m]) = GeometryPair(NodesOf(pass)[n])
    /\ TriCount(pass) <= Len(pass.tc.meshLog)

\* What a step of the pass may do to the assembly: after the drain nothing
\* is flattened or tessellated and the output keeps its entries; after the
\* release no cache changes; the drain is the step that leaves the label
\* loop; the caches grow during flattening and shrink in the one step that
\* follows the drain.
AssemblyStep ==
    /\ Drained(pass) =>
          /\ Drained(pass')
          /\ NodesOf(pass') = NodesOf(pass)
          /\ pass'.tc.meshLog = pass.tc.meshLog
          /\ pass'.tc.frameLog = pass.tc.frameLog
          /\ TriCount(pass') = TriCount(pass)
          /\ LineCount(pass') = LineCount(pass)
    /\ Released(pass) => pass'.tc.triangulated = pass.tc.triangulated
    /\ (Drained(pass') /\ ~Drained(pass)) =>
          /\ pass.pc = "labels"
          /\ Compacted(pass.tc.triGeometryMap, pass'.tris)
          /\ Compacted(pass.tc.lineGeometryMap, pass'.lines)
    /\ pass'.tc.triangulated # pass.tc.triangulated =>
          \/ pass.pc = "flatten" /\ pass.tc.triangulated \subseteq pass'.tc.triangulated
          \/ pass.pc = "clean" /\ pass'.pc = "return"

\* C24. Assembly runs once, after all roots: the maps are drained into the
\* output arrays and the tessellation caches released only after the
\* flattening of every free root has finished; the vectors are filled by
\* one step and the caches released by one later step; after the drain no
\* root is flattened, and after the release no triangulation is read; and
\* the dedup maps are shared by all roots, so an identity under two roots
\* is tessellated once and has one geometry entry.
C24_AssemblyOnceAfterRoots ==
    /\ [](Drained(pass) => AfterAllRoots)
    /\ [](Released(pass) => pass.tc.triangulated \cap CleanedBy(doc) = {})
    /\ [](SharedByAllRoots)
    /\ [][AssemblyStep]_vars

\* The returned model of a document with two roots that both hold S1 and
\* S2: the three solids of the first root were tessellated once each, and
\* the nodes of S1 and S2 under the two roots share two geometry entries.
C24_Witness ==
    /\ pass.pc = "done"
    /\ Cardinality(RootNodes) = 2
    /\ \E m, n \in SolidVisits :
          /\ IdentityOf(m) = IdentityOf(n)
          /\ RootOf(m) # RootOf(n)
          /\ NodesOf(pass)[m].triGeometryIndex >= 0
          /\ NodesOf(pass)[m].triGeometryIndex = NodesOf(pass)[n].triGeometryIndex
    /\ Len(ValueOf(pass.result).tris) = 2
    /\ Len(pass.tc.meshLog) = 3
    /\ Len(ValueOf(pass.result).meshes) = 7

----------------------------------------------------------------------------
(* Properties of the submesh tables                                        *)

\* The vertex counts of the faces that carry a triangulation, in the
\* order of the face explorer.
RECURSIVE FaceVertexCounts(_, _)
FaceVertexCounts(faces, f) ==
    IF f > Len(faces) THEN <<>>
    ELSE (IF HasValue(faces[f].tri) THEN << Len(ValueOf(faces[f].tri).nodes) >> ELSE <<>>)
         \o FaceVertexCounts(faces, f + 1)

\* The edge identities on the faces of an identity.
EdgeIdentities(d, id) ==
    UNION {{d.tshapes[id].faces[f].edges[e].tshape :
               e \in 1..Len(d.tshapes[id].faces[f].edges)} :
           f \in 1..Len(d.tshapes[id].faces)}

\* The edge identities met by the shapes tessellated before identity id.
MetBefore(id) ==
    UNION {EdgeIdentities(doc, pass.tc.meshLog[i]) :
           i \in {j \in 1..Len(pass.tc.meshLog) :
                    \E k \in (j + 1)..Len(pass.tc.meshLog) : pass.tc.meshLog[k] = id}}

\* The entries of a table sum to the vertices of the position buffer.
SumsToVertices(g) == 3 * SumSeq(g.submeshIndices, 1) = Len(g.positions)

\* C25. Submesh tables reconstruct by cumulative sum: in every TriGeometry
\* the table has one entry per face that carried triangulation data, in
\* face order, equal to the vertex count of the face, and the entries sum
\* to positions.size()/3; in every LineGeometry the table has one entry per
\* edge that emitted segments, equal to the endpoint vertices emitted for
\* it, and the entries sum to positions.size()/3.
C25_SubmeshTables ==
    /\ \A k \in DOMAIN pass.tc.triGeometryMap :
          /\ pass.tc.triGeometryMap[k].geometry.submeshIndices
                = FaceVertexCounts(doc.tshapes[k].faces, 1)
          /\ SumsToVertices(pass.tc.triGeometryMap[k].geometry)
    /\ \A k \in DOMAIN pass.tc.lineGeometryMap :
          /\ pass.tc.lineGeometryMap[k].geometry.submeshIndices
                = ExpectedSubmeshes(EdgePointCounts(doc.tshapes[k].faces, 1, 1,
                                                    MetBefore(k)), 1)
          /\ SumsToVertices(pass.tc.lineGeometryMap[k].geometry)
    /\ \A i \in 1..Len(pass.tris) : SumsToVertices(pass.tris[i])
    /\ \A i \in 1..Len(pass.lines) : SumsToVertices(pass.lines[i])
    /\ HasValue(pass.result) =>
          /\ \A i \in 1..Len(ValueOf(pass.result).tris) :
                SumsToVertices(ValueOf(pass.result).tris[i])
          /\ \A i \in 1..Len(ValueOf(pass.result).lines) :
                SumsToVertices(ValueOf(pass.result).lines[i])

\* The geometries of S1 are stored: the triangle table has the vertex
\* counts 3 and 4 of its two faces, which differ from their index counts,
\* and the line table an entry of 2 endpoints for e1 and e2 and of 4 for
\* the three sampled points of e3.
C25_Witness ==
    /\ "S1" \in DOMAIN pass.tc.triGeometryMap
    /\ "S1" \in DOMAIN pass.tc.lineGeometryMap
    /\ pass.tc.meshLog[1] = "S1"
    /\ pass.tc.triGeometryMap["S1"].geometry.submeshIndices = <<3, 4>>
    /\ Len(pass.tc.triGeometryMap["S1"].geometry.indices) = 9
    /\ pass.tc.lineGeometryMap["S1"].geometry.submeshIndices = <<2, 2, 4>>
    /\ Len(pass.tc.lineGeometryMap["S1"].geometry.positions) = 24

----------------------------------------------------------------------------
(* Properties of assignments in opposite directions                        *)

\* Thread c executes an assignment, holds the mutex of its source (line
\* 260 or 274) and is blocked at the lock of its target (261 or 275),
\* which thread h holds.
HoldsAndWaits(c, h) ==
    /\ IsAssignment(copyOp[c])
    /\ pcCopier[c] = "lockThis"
    /\ objMutex[copyOp[c].from] = Some(CopierId(c))
    /\ objMutex[copyOp[c].to] = Some(CopierId(h))

\* Two threads assign a = b and b = a.
OppositeAssignments(c, h) ==
    /\ c # h
    /\ IsAssignment(copyOp[c]) /\ IsAssignment(copyOp[h])
    /\ copyOp[c].to = copyOp[h].from
    /\ copyOp[c].from = copyOp[h].to

\* C26. Assignment between ModelContext objects is deadlock-free: when two
\* threads execute a = b and b = a, no reachable state has each thread
\* holding the triangulationMutex of one object while waiting for that of
\* the other.
C26_NoLockCycle ==
    \A c, h \in Copiers :
        OppositeAssignments(c, h) => ~(HoldsAndWaits(c, h) /\ HoldsAndWaits(h, c))

\* Thread 1 executes a = b and holds the mutex of b, thread 2 executes
\* b = std::move(a) and holds the mutex of a; each is at the lock of the
\* mutex the other holds, no computation is running, and neither
\* assignment has transferred the cached model.
C26_Witness ==
    /\ copyOp[1] = [kind |-> "copy-assign", to |-> "a", from |-> "b"]
    /\ copyOp[2] = [kind |-> "move-assign", to |-> "b", from |-> "a"]
    /\ pcCopier = [c \in Copiers |-> "lockThis"]
    /\ objMutex = [o \in Objects |-> IF o = "b" THEN Some(CopierId(1)) ELSE Some(CopierId(2))]
    /\ \A o \in Objects : pcCompute[o] = "idle"
    /\ ~ ENABLED (CopierLockThis(1) \/ CopierLockThis(2))

----------------------------------------------------------------------------
(* Properties of the reads of the cached model                             *)

\* C27. The cached result is never accessed outside the model mutex while
\* a computation can write it: no read of triangulatedModel by
\* getTriangulatedModel on the host thread or by the worker's check of
\* line 167 is made without the mutex while another thread is inside
\* computeTriangulation() before the end of its assignment.
C27_ReadsUnderMutex ==
    \A a \in modelAccess : a.running => a.held

\* The worker of task 1 holds the mutex and is about to assign the result
\* of the pass (line 160); the host thread, which holds no mutex, has read
\* the optional through getTriangulatedModel while the worker was there.
C27_Witness ==
    /\ pcWorker[1] = "compute"
    /\ triangulationMutex = Some(WorkerId(1))
    /\ triangulatedModel = None
    /\ \A i \in SyncThreads : pcSync[i] = "idle"
    /\ [by |-> HostId, member |-> "getTriangulatedModel", held |-> FALSE, running |-> TRUE]
          \in modelAccess

====
